---------------------------- MODULE Spec2Model ----------------------------
(***************************************************************************)
(* A model of mongoose-url-query: the filter parser (parseFilter), the     *)
(* pipeline compiler (buildMatch, buildPipeline, buildPipelineWithPercent),*)
(* the URL filter extraction (getFiltersFromUrl) and the orchestrators     *)
(* (fetchList, fetchUnifiedList) that hand stage lists to the aggregation  *)
(* engine.                                                                 *)
(*                                                                         *)
(* A JavaScript string is a sequence of one-character strings, so that     *)
(* split, includes and the regular-expression tests of the source work on  *)
(* characters.  A possibly-undefined JavaScript value is a record          *)
(* [k, s, t]: k is "undefined", "string" or "range"; s is the string (or   *)
(* the from part), t the to part of a {from, to} value.                    *)
(***************************************************************************)
EXTENDS Integers, Sequences, FiniteSets, TLC

\* ------------------------------------------------------------------------
\* String literals of the source, as character sequences.
\* ------------------------------------------------------------------------
s_name == <<"n","a","m","e">>
s_id == <<"i","d">>
s__id == <<"_","i","d">>
s_cancellationType == <<"c","a","n","c","e","l","l","a","t","i","o","n","T","y","p","e">>
s_string == <<"s","t","r","i","n","g">>
s_date == <<"d","a","t","e">>
s_amount == <<"a","m","o","u","n","t">>
s_array == <<"a","r","r","a","y">>
s_eq == <<"e","q">>
s_ne == <<"n","e">>
s_has == <<"h","a","s">>
s_nh == <<"n","h">>
s_any == <<"a","n","y">>
s_none == <<"n","o","n","e">>
s_range == <<"r","a","n","g","e">>
s_lt == <<"l","t">>
s_gt == <<"g","t">>
s_before == <<"b","e","f","o","r","e">>
s_after == <<"a","f","t","e","r">>
s_constructor == <<"c","o","n","s","t","r","u","c","t","o","r">>
s_toString == <<"t","o","S","t","r","i","n","g">>
s_valueOf == <<"v","a","l","u","e","O","f">>
s_shopDomain == <<"s","h","o","p","D","o","m","a","i","n">>
s_price == <<"p","r","i","c","e">>

\* ------------------------------------------------------------------------
\* JavaScript values and string primitives.
\* ------------------------------------------------------------------------
Undefined == [k |-> "undefined", s |-> <<>>, t |-> <<>>]
Str(s) == [k |-> "string", s |-> s, t |-> <<>>]
Range(from, to) == [k |-> "range", s |-> from, t |-> to]

IsUndefined(x) == x.k = "undefined"
IsString(x) == x.k = "string"
\* JavaScript truthiness of a string-or-undefined value: "" and undefined are falsy.
Truthy(x) == x.k = "range" \/ (x.k = "string" /\ x.s # <<>>)

Digits == {"0","1","2","3","4","5","6","7","8","9"}
IsDigit(c) == c \in Digits

\* String.prototype.includes for a single character.
Includes(s, c) == \E i \in 1..Len(s) : s[i] = c

\* Index of the first occurrence of c in s, 0 when there is none.
IndexOf(s, c) == IF Includes(s, c) THEN CHOOSE i \in 1..Len(s) : s[i] = c /\ \A j \in 1..(i-1) : s[j] # c ELSE 0

\* String.prototype.split(sep) without a limit: every piece, the empty ones included.
RECURSIVE SplitAll(_, _)
SplitAt(s, sep, at) == IF at = 0 THEN <<s>> ELSE <<SubSeq(s, 1, at-1)>> \o SplitAll(SubSeq(s, at+1, Len(s)), sep)
SplitAll(s, sep) == SplitAt(s, sep, IndexOf(s, sep))

\* The first n elements of arr, all of them when it has fewer.
Take(arr, n) == SubSeq(arr, 1, IF Len(arr) < n THEN Len(arr) ELSE n)

\* String.prototype.split(sep, limit): the pieces of the full split, cut to the first limit.
Split(s, sep, limit) == Take(SplitAll(s, sep), limit)

\* Array.prototype.join(sep).
RECURSIVE Join(_, _)
Join(parts, sep) == IF Len(parts) = 0 THEN <<>> ELSE IF Len(parts) = 1 THEN parts[1] ELSE parts[1] \o <<sep>> \o Join(Tail(parts), sep)

\* Destructuring: the k-th element of an array, undefined past its end.
At(arr, k) == IF k <= Len(arr) THEN Str(arr[k]) ELSE Undefined

\* /^\d{4}-\d{2}-\d{2}$/
IsIsoDay(s) == /\ Len(s) = 10
               /\ \A i \in {1,2,3,4,6,7,9,10} : IsDigit(s[i])
               /\ s[5] = "-" /\ s[8] = "-"

\* /^\d{4}-\d{2}-\d{2}(~\d{4}-\d{2}-\d{2})?$/
IsDateOrDateRange(s) == \/ IsIsoDay(s)
                        \/ /\ Len(s) = 21
                           /\ IsIsoDay(SubSeq(s, 1, 10))
                           /\ s[11] = "~"
                           /\ IsIsoDay(SubSeq(s, 12, 21))

\* /^[\d.]+$/
IsDigitsAndDots(s) == Len(s) >= 1 /\ \A i \in 1..Len(s) : IsDigit(s[i]) \/ s[i] = "."

\* ------------------------------------------------------------------------
\* Constants of the filter module.
\* ------------------------------------------------------------------------
FORCE_STRING_FIELDS == {s_name, s_id, s_cancellationType}
FORCE_EQUAL_FIELDS == {s_id, s__id}

\* SUPPORTED_OPERATORS[operator]: the types listed for an own key.
SUPPORTED_OPERATORS(operator) ==
  CASE operator = s_eq -> {s_string, s_date, s_amount, s_array}
    [] operator = s_ne -> {s_string, s_amount, s_array}
    [] operator = s_has -> {s_string}
    [] operator = s_nh -> {s_string}
    [] operator = s_any -> {s_string, s_array}
    [] operator = s_none -> {s_string, s_array}
    [] operator = s_range -> {s_date, s_amount}
    [] operator = s_lt -> {s_amount}
    [] operator = s_gt -> {s_amount}
    [] operator = s_before -> {s_date}
    [] operator = s_after -> {s_date}
    [] OTHER -> {}

OwnOperatorKeys == {s_eq, s_ne, s_has, s_nh, s_any, s_none, s_range, s_lt, s_gt, s_before, s_after}

\* SUPPORTED_OPERATORS is an object literal: a key it does not own is looked up
\* on Object.prototype, whose members are functions without an includes method.
ObjectPrototypeKeys == {s_constructor, s_toString, s_valueOf}

\* ------------------------------------------------------------------------
\* parseFilter
\* ------------------------------------------------------------------------
\* Type detection that leaves the FORCE_STRING_FIELDS test out.
DetectType_NoForcedString(field, value) ==
  IF IsDateOrDateRange(value) THEN s_date
  ELSE IF IsDigitsAndDots(value) THEN s_amount
  ELSE s_string

\* Type detection of the short form (before the comma override).
DetectType(field, value) ==
  IF IsDateOrDateRange(value) THEN s_date
  ELSE IF IsDigitsAndDots(value) /\ field \notin FORCE_STRING_FIELDS THEN s_amount
  ELSE s_string

\* Operator detection of the short form; a comma also overrides the type to array.
DetectOperator(field, value) ==
  IF Includes(value, ",") THEN [type |-> s_array, operator |-> s_any]
  ELSE IF Includes(value, "~") THEN [type |-> DetectType(field, value), operator |-> s_range]
  ELSE IF field \in FORCE_EQUAL_FIELDS THEN [type |-> DetectType(field, value), operator |-> s_eq]
  ELSE [type |-> DetectType(field, value), operator |-> s_has]

\* const [from, to] = pieces; { from, to }
FromTo(pieces) == Range(pieces[1], pieces[2])

\* The range step: a string value of operator range that holds "~" becomes {from, to}.
ParseRangeValue(operator, value) ==
  IF operator = Str(s_range) /\ IsString(value) /\ Includes(value.s, "~")
  THEN FromTo(Split(value.s, "~", 2))
  ELSE value

\* A split that stops after three pieces.
SplitParam_LimitThree(param) == Split(param, "|", 3)

\* The pieces of param.split("|", 5).
SplitParam(param) == Split(param, "|", 5)

Descriptor(field, type, operator, value, percentOfResult) ==
  [field |-> field, type |-> type, operator |-> operator,
   value |-> ParseRangeValue(operator, value), percentOfResult |-> percentOfResult]

\* The short form once type and operator are detected.
Detected(field, value, det, percentOfResult) ==
  Descriptor(field, Str(det.type), Str(det.operator), value, percentOfResult)

ShortForm(field, value, percentOfResult) ==
  Detected(field, value, DetectOperator(field.s, value.s), percentOfResult)

Destructured(field, p2, p3, p4, percentOfResult) ==
  IF IsUndefined(p4) /\ (~IsUndefined(p3) \/ ~IsUndefined(p2))
  THEN ShortForm(field, IF Truthy(p3) THEN p3 ELSE p2, percentOfResult)
  ELSE Descriptor(field, p2, p3, p4, percentOfResult)

FilterOfParts(parts) == Destructured(At(parts, 1), At(parts, 2), At(parts, 3), At(parts, 4), At(parts, 5))

parseFilter(param) == FilterOfParts(SplitParam(param))

parseFilters(params) == [k \in 1..Len(params) |-> parseFilter(params[k])]

\* ------------------------------------------------------------------------
\* Numbers: parseFloat and Number on the modelled alphabet (sign, digits, one
\* decimal point; no exponent, hexadecimal or Infinity spellings).  A number is
\* kept as its canonical decimal text, NaN as a value of its own.
\* ------------------------------------------------------------------------
NaN == [t |-> "nan", v |-> <<>>]
StrVal(s) == [t |-> "str", v |-> s]

\* The longest prefix of s made of digits.
RECURSIVE DigitPrefix(_)
DigitPrefix(s) == IF Len(s) = 0 \/ ~IsDigit(s[1]) THEN <<>> ELSE <<s[1]>> \o DigitPrefix(Tail(s))

RECURSIVE StripLeadingZeros(_)
StripLeadingZeros(s) == IF Len(s) > 1 /\ s[1] = "0" THEN StripLeadingZeros(Tail(s)) ELSE s

RECURSIVE StripTrailingZeros(_)
StripTrailingZeros(s) == IF Len(s) > 0 /\ s[Len(s)] = "0" THEN StripTrailingZeros(SubSeq(s, 1, Len(s)-1)) ELSE s

\* The number whose sign, integer digits and fraction digits are given.
Canonical(neg, int, frac) ==
  [t |-> "num",
   v |-> (IF neg /\ ~(int = <<"0">> /\ frac = <<>>) THEN <<"-">> ELSE <<>>)
         \o int \o (IF frac = <<>> THEN <<>> ELSE <<".">> \o frac)]

NumVal(neg, int, frac) ==
  Canonical(neg, StripLeadingZeros(IF int = <<>> THEN <<"0">> ELSE int), StripTrailingZeros(frac))

\* The numeric prefix of s: [ok, neg, int, frac, used], used = the characters consumed.
IsSigned(s) == Len(s) > 0 /\ s[1] \in {"+", "-"}
Unsigned(s) == IF IsSigned(s) THEN Tail(s) ELSE s
HasDot(rest) == Len(rest) > 0 /\ rest[1] = "."

PrefixWithFraction(s, int, dot, frac) ==
  [ok |-> int # <<>> \/ frac # <<>>,
   neg |-> IsSigned(s) /\ s[1] = "-",
   int |-> int, frac |-> frac,
   used |-> (IF IsSigned(s) THEN 1 ELSE 0) + Len(int) + (IF dot THEN 1 + Len(frac) ELSE 0)]

PrefixWithRest(s, int, rest) ==
  PrefixWithFraction(s, int, HasDot(rest), IF HasDot(rest) THEN DigitPrefix(Tail(rest)) ELSE <<>>)

PrefixWithInt(s, body, int) == PrefixWithRest(s, int, SubSeq(body, Len(int)+1, Len(body)))

NumericPrefix(s) == PrefixWithInt(s, Unsigned(s), DigitPrefix(Unsigned(s)))

\* parseFloat(x): the number a prefix of String(x) spells, else NaN.
PrefixValue(p) == IF p.ok THEN NumVal(p.neg, p.int, p.frac) ELSE NaN

parseFloat(x) == IF ~IsString(x) THEN NaN ELSE PrefixValue(NumericPrefix(x.s))

\* Number(s) of a string: 0 for "", the number the whole string spells, else NaN.
WholeTextValue(p, length) == IF p.ok /\ p.used = length THEN NumVal(p.neg, p.int, p.frac) ELSE NaN

Number(s) == IF s = <<>> THEN NumVal(FALSE, <<>>, <<>>) ELSE WholeTextValue(NumericPrefix(s), Len(s))

\* ------------------------------------------------------------------------
\* Dates: toDate, startOfDay, endOfDay.  A Date is valid or the Invalid Date;
\* a valid one is kept as the text of its UTC day.
\* ------------------------------------------------------------------------
DigitSeq == <<"0","1","2","3","4","5","6","7","8","9">>
DigitVal(c) == (CHOOSE i \in 1..10 : DigitSeq[i] = c) - 1

RECURSIVE ToInt(_)
ToInt(s) == IF Len(s) = 0 THEN 0 ELSE 10 * ToInt(SubSeq(s, 1, Len(s)-1)) + DigitVal(s[Len(s)])

RECURSIVE IntToStr(_)
IntToStr(n) == IF n < 10 THEN <<DigitSeq[n+1]>> ELSE IntToStr(n \div 10) \o <<DigitSeq[(n % 10)+1]>>

RECURSIVE PadZeros(_, _)
PadZeros(s, width) == IF Len(s) >= width THEN s ELSE PadZeros(<<"0">> \o s, width)

IsLeapYear(y) == (y % 4 = 0 /\ y % 100 # 0) \/ y % 400 = 0
DaysInMonth(y, m) == IF m = 2 THEN (IF IsLeapYear(y) THEN 29 ELSE 28)
                     ELSE IF m \in {4, 6, 9, 11} THEN 30 ELSE 31

InvalidDate == [valid |-> FALSE, day |-> <<>>]

\* new Date(`${day}T00:00:00.000Z`) for a text of the shape YYYY-MM-DD, in Node's
\* engine: a month outside 1..12 or a day outside 1..31 gives the Invalid Date; a
\* day past the end of its month rolls over into the next month.
DateOfYmd(s, y, m, d) ==
  IF m \notin 1..12 \/ d \notin 1..31 THEN InvalidDate
  ELSE IF d <= DaysInMonth(y, m) THEN [valid |-> TRUE, day |-> s]
  ELSE [valid |-> TRUE,
        day |-> PadZeros(IntToStr(y), 4) \o <<"-">> \o PadZeros(IntToStr(m+1), 2)
                \o <<"-">> \o PadZeros(IntToStr(d - DaysInMonth(y, m)), 2)]

DateOfIsoDay(s) == DateOfYmd(s, ToInt(SubSeq(s, 1, 4)), ToInt(SubSeq(s, 6, 7)), ToInt(SubSeq(s, 9, 10)))

\* A text new Date(text) hands to the engine's own date grammar: not of the shape
\* YYYY-MM-DD and holding a digit.  The inputs of the model hold no such date
\* value; a text without a digit is never a date.
IsLegacyDateText(s) == ~IsIsoDay(s) /\ \E i \in 1..Len(s) : IsDigit(s[i])

\* toDate(input) for a string or undefined input.
toDate(input) ==
  IF IsString(input) /\ IsIsoDay(input.s) THEN DateOfIsoDay(input.s) ELSE InvalidDate

\* startOfDay / endOfDay: toISOString throws a RangeError on the Invalid Date.
IsoString(d, time) ==
  IF d.valid THEN [k |-> "ok", val |-> [t |-> "date", v |-> d.day \o <<time>>]]
  ELSE [k |-> "throw", val |-> NaN]

startOfDay(input) == IsoString(toDate(input), "T00:00:00.000Z")

\* An end of day that is the first millisecond of the day.
endOfDay_AsStart(input) == IsoString(toDate(input), "T00:00:00.000Z")

endOfDay(input) == IsoString(toDate(input), "T23:59:59.999Z")

\* ------------------------------------------------------------------------
\* Regular expressions and ObjectIds.
\* ------------------------------------------------------------------------
\* The depth of open groups after reading s, -1 once a ")" closes nothing.
RECURSIVE ParenDepth(_, _)
ParenDepth(s, depth) ==
  IF depth < 0 \/ Len(s) = 0 THEN depth
  ELSE ParenDepth(Tail(s), IF s[1] = "(" THEN depth + 1 ELSE IF s[1] = ")" THEN depth - 1 ELSE depth)

\* Whether new RegExp(pattern, "i") compiles, for a pattern over letters, digits,
\* "_", "-", "~", ",", ".", "|", "^", "$" and parentheses: it does unless a
\* parenthesis is unmatched (a SyntaxError).
RegExpCompiles(pattern) == ParenDepth(pattern, 0) = 0

\* new RegExp(pattern, "i").
RegExp(pattern) ==
  IF RegExpCompiles(pattern) THEN [k |-> "ok", val |-> [t |-> "regex", v |-> pattern]]
  ELSE [k |-> "throw", val |-> NaN]

HexChars == Digits \cup {"a","b","c","d","e","f","A","B","C","D","E","F"}

\* ObjectId.isValid for a string: 24 hexadecimal characters (the inputs of the
\* model hold no 12-character string).
ObjectIdIsValid(s) == Len(s) = 24 /\ \A i \in 1..24 : s[i] \in HexChars

\* ObjectId.isValid(x) ? new ObjectId(x) : x
ObjectIdOrString(s) == IF ObjectIdIsValid(s) THEN [t |-> "oid", v |-> s] ELSE StrVal(s)

\* ------------------------------------------------------------------------
\* Stages.  A stage is [kind, field, cond, args, sub]; args are values [t, v],
\* sub is the pipeline of a $unionWith.
\* ------------------------------------------------------------------------
NoStage == [kind |-> "", field |-> <<>>, cond |-> "", args |-> <<>>, sub |-> <<>>]
Match(field, cond, args) == [kind |-> "$match", field |-> field, cond |-> cond, args |-> args, sub |-> <<>>]
Limit(n) == [kind |-> "$limit", field |-> <<>>, cond |-> "", args |-> <<n>>, sub |-> <<>>]
Skip(n) == [kind |-> "$skip", field |-> <<>>, cond |-> "", args |-> <<n>>, sub |-> <<>>]
Count == [kind |-> "$count", field |-> <<"t","o","t","a","l">>, cond |-> "", args |-> <<>>, sub |-> <<>>]
Sort(field, dir) == [kind |-> "$sort", field |-> field, cond |-> dir, args |-> <<>>, sub |-> <<>>]
AddSourceType(name) == [kind |-> "$addFields", field |-> <<"_","s","o","u","r","c","e","T","y","p","e">>, cond |-> "", args |-> <<[t |-> "str", v |-> name]>>, sub |-> <<>>]
UnionWith(coll, unionPipeline) == [kind |-> "$unionWith", field |-> coll, cond |-> "", args |-> <<>>, sub |-> unionPipeline]

Null == [k |-> "null", error |-> "", stage |-> NoStage]
Emit(stage) == [k |-> "stage", error |-> "", stage |-> stage]
Throw(error) == [k |-> "throw", error |-> error, stage |-> NoStage]

\* ------------------------------------------------------------------------
\* prepareValue and buildMatch
\* ------------------------------------------------------------------------
\* v.from / v.to of a value read as {from, to}: undefined on a plain string.
FromOf(value) == IF value.k = "range" THEN Str(value.s) ELSE Undefined
ToOf(value) == IF value.k = "range" THEN Str(value.t) ELSE Undefined

\* [startOfDay(a), endOfDay(b)]: the first call that throws ends the evaluation.
Bounds(lo, hi) ==
  IF lo.k = "throw" \/ hi.k = "throw" THEN [k |-> "throw", vals |-> <<>>]
  ELSE [k |-> "ok", vals |-> <<lo.val, hi.val>>]

DayBounds(a, b) == Bounds(startOfDay(a), endOfDay(b))

prepareValue(value, type, operator) ==
  IF type = s_date THEN
    IF operator = s_range THEN DayBounds(FromOf(value), ToOf(value))
    ELSE DayBounds(value, value)
  ELSE IF type = s_amount THEN
    IF operator = s_range THEN [k |-> "ok", vals |-> <<parseFloat(FromOf(value)), parseFloat(ToOf(value))>>]
    ELSE [k |-> "ok", vals |-> <<parseFloat(value)>>]
  ELSE [k |-> "ok", vals |-> <<StrVal(value.s)>>]

\* A match on a regular expression built from pattern, or the SyntaxError.
RegexStage(field, cond, re) ==
  IF re.k = "throw" THEN Throw("SyntaxError") ELSE Emit(Match(field, cond, <<re.val>>))

RegexMatch(field, cond, pattern) == RegexStage(field, cond, RegExp(pattern))

\* v.split(",").map((x) => (ObjectId.isValid(x) ? new ObjectId(x) : x))
IdsOf(parts) == [k \in 1..Len(parts) |-> ObjectIdOrString(parts[k])]

SplitIds(s) == IdsOf(SplitAll(s, ","))

\* `^(${v.split(",").join("|")})$`
AnyOfPattern(s) == <<"^", "(">> \o Join(SplitAll(s, ","), "|") \o <<")", "$">>

\* The guard of buildMatch: a missing field, type, operator or value.
Incomplete(filter) ==
  \/ ~Truthy(filter.field) \/ ~Truthy(filter.type) \/ ~Truthy(filter.operator)
  \/ IsUndefined(filter.value)

\* SUPPORTED_OPERATORS[operator]?.includes(type): "yes", "no", or "throw" when the
\* key names a member of Object.prototype, which has no includes to call.
Supported(type, operator) ==
  IF operator \in OwnOperatorKeys
  THEN (IF type \in SUPPORTED_OPERATORS(operator) THEN "yes" ELSE "no")
  ELSE IF operator \in ObjectPrototypeKeys THEN "throw" ELSE "no"

\* The switch of buildMatch, for a supported pair and its prepared value v.
MatchStage(field, type, operator, v) ==
  CASE operator = s_eq ->
         IF type = s_date THEN Emit(Match(field, "$gte-$lte", v))
         ELSE IF type = s_string THEN
           IF field \in {s_id, s__id}
           THEN Emit(Match(<<>>, "$or:id,id,_id", <<v[1], Number(v[1].v), ObjectIdOrString(v[1].v)>>))
           ELSE RegexMatch(field, "$regex", <<"^">> \o v[1].v \o <<"$">>)
         ELSE Emit(Match(field, "$eq", v))
    [] operator = s_ne ->
         IF type = s_string THEN RegexMatch(field, "$not", <<"^">> \o v[1].v \o <<"$">>)
         ELSE Emit(Match(field, "$ne", v))
    [] operator = s_has -> RegexMatch(field, "$regex", v[1].v)
    [] operator = s_nh -> RegexMatch(field, "$not", v[1].v)
    [] operator = s_any ->
         IF type = s_array THEN Emit(Match(field, "$in", SplitIds(v[1].v)))
         ELSE RegexMatch(field, "$regex", AnyOfPattern(v[1].v))
    [] operator = s_none ->
         IF type = s_array THEN Emit(Match(field, "$nin", SplitIds(v[1].v)))
         ELSE RegexMatch(field, "$not", AnyOfPattern(v[1].v))
    [] operator = s_range -> Emit(Match(field, "$gte-$lte", v))
    [] operator \in {s_lt, s_before} -> Emit(Match(field, "$lt", <<v[1]>>))
    [] operator \in {s_gt, s_after} -> Emit(Match(field, "$gt", <<IF type = s_date THEN v[2] ELSE v[1]>>))
    [] OTHER -> Null

MatchOfPrepared(filter, v) ==
  IF v.k = "throw" THEN Throw("RangeError")
  ELSE MatchStage(filter.field.s, filter.type.s, filter.operator.s, v.vals)

MatchIfSupported(filter, sup) ==
  IF sup = "throw" THEN Throw("TypeError")
  ELSE IF sup = "no" THEN Null
  ELSE MatchOfPrepared(filter, prepareValue(filter.value, filter.type.s, filter.operator.s))

buildMatch(filter) ==
  IF Incomplete(filter) THEN Null
  ELSE MatchIfSupported(filter, Supported(filter.type.s, filter.operator.s))

\* ------------------------------------------------------------------------
\* buildPipeline: [k, error, stages]; k is "ok", or "throw" with the error of the
\* first filter whose buildMatch throws.
\* ------------------------------------------------------------------------
RECURSIVE PipelineFrom(_, _, _)
PipelineStep(filters, i, pipeline, stage) ==
  IF stage.k = "throw" THEN [k |-> "throw", error |-> stage.error, stages |-> <<>>]
  ELSE PipelineFrom(filters, i + 1, IF stage.k = "stage" THEN Append(pipeline, stage.stage) ELSE pipeline)

PipelineFrom(filters, i, pipeline) ==
  IF i > Len(filters) THEN [k |-> "ok", error |-> "", stages |-> pipeline]
  ELSE PipelineStep(filters, i, pipeline, buildMatch(filters[i]))

buildPipeline(filters) == PipelineFrom(filters, 1, <<>>)

\* ------------------------------------------------------------------------
\* buildPipelineWithPercent: the truncation arithmetic.
\* ------------------------------------------------------------------------
\* JavaScript numbers are IEEE 754 doubles.  A positive double is kept as
\* [bits, exp]: its significand, most significant bit first and at most 53 bits
\* long, and the exponent of its last bit; its value is bits * 2^exp.
SignificandBits == 53

\* The binary digits of a natural number, most significant first (none for 0).
RECURSIVE NatBits(_)
NatBits(n) == IF n = 0 THEN <<>> ELSE NatBits(n \div 2) \o <<n % 2>>

RECURSIVE BitsNat(_)
BitsNat(bits) == IF Len(bits) = 0 THEN 0 ELSE 2 * BitsNat(SubSeq(bits, 1, Len(bits)-1)) + bits[Len(bits)]

\* Long numbers are handled sixteen bits at a time: a limb is a digit in base
\* 65536, most significant limb first.
Pow2(k) == <<1, 2, 4, 8, 16, 32, 64, 128, 256, 512, 1024, 2048, 4096, 8192, 16384, 32768, 65536>>[k + 1]

LimbsToBits(limbs) ==
  [j \in 1..(16 * Len(limbs)) |-> (limbs[((j - 1) \div 16) + 1] \div Pow2(15 - ((j - 1) % 16))) % 2]

LimbsOfPadded(padded) ==
  [q \in 1..(Len(padded) \div 16) |-> BitsNat(SubSeq(padded, 16 * (q - 1) + 1, 16 * q))]

BitsToLimbs(bits) == LimbsOfPadded([j \in 1..((16 - (Len(bits) % 16)) % 16) |-> 0] \o bits)

\* The first n limbs of the fraction r/den (r < den), and what is left.
RECURSIVE FractionLimbs(_, _, _)
FractionLimbs(r, den, n) ==
  IF n = 0 THEN <<>> ELSE <<(65536 * r) \div den>> \o FractionLimbs((65536 * r) % den, den, n - 1)

RECURSIVE FractionRest(_, _, _)
FractionRest(r, den, n) == IF n = 0 THEN r ELSE FractionRest((65536 * r) % den, den, n - 1)

StripLeadingZeroBits(bits) ==
  IF \E j \in 1..Len(bits) : bits[j] = 1
  THEN SubSeq(bits, CHOOSE j \in 1..Len(bits) : bits[j] = 1 /\ \A h \in 1..(j-1) : bits[h] = 0, Len(bits))
  ELSE <<>>

\* bits + 1, one bit longer when every bit was 1.
SetLastZero(bits, z) == [j \in 1..Len(bits) |-> IF j < z THEN bits[j] ELSE IF j = z THEN 1 ELSE 0]

IncrementBits(bits) ==
  IF \E j \in 1..Len(bits) : bits[j] = 0
  THEN SetLastZero(bits, CHOOSE j \in 1..Len(bits) : bits[j] = 0 /\ \A h \in (j+1)..Len(bits) : bits[h] = 1)
  ELSE <<1>> \o [j \in 1..Len(bits) |-> 0]

\* Round to nearest, ties to even: the double nearest to bits * 2^exp (+ a
\* nonzero rest below the last bit when sticky).
Rounded(m, exp) ==
  IF Len(m) > SignificandBits
  THEN [bits |-> SubSeq(m, 1, SignificandBits), exp |-> exp + 1]
  ELSE [bits |-> m, exp |-> exp]

RoundKept(kept, up, exp) == Rounded(IF up THEN IncrementBits(kept) ELSE kept, exp)

RoundBits(bits, exp, sticky) ==
  IF Len(bits) <= SignificandBits THEN [bits |-> bits, exp |-> exp]
  ELSE RoundKept(SubSeq(bits, 1, SignificandBits),
                 /\ bits[SignificandBits + 1] = 1
                 /\ \/ sticky
                    \/ \E j \in (SignificandBits + 2)..Len(bits) : bits[j] = 1
                    \/ bits[SignificandBits] = 1,
                 exp + (Len(bits) - SignificandBits))

RoundToDouble(rawBits, exp, sticky) == RoundBits(StripLeadingZeroBits(rawBits), exp, sticky)

\* The double a / b, for naturals a >= 1 and 1 <= b < 32768: the quotient is
\* developed four limbs past the point, which leaves more bits than the
\* significand and its guard bit need for any quotient >= 1/b.
DivideDouble(a, b) ==
  RoundToDouble(NatBits(a \div b) \o LimbsToBits(FractionLimbs(a % b, b, 4)),
                0 - 64,
                FractionRest(a % b, b, 4) # 0)

\* limbs * k + carry, for a natural k < 32768.
RECURSIVE TimesLimbs(_, _, _)
TimesLimb(limbs, k, v) == TimesLimbs(SubSeq(limbs, 1, Len(limbs)-1), k, v \div 65536) \o <<v % 65536>>

TimesLimbs(limbs, k, carry) ==
  IF Len(limbs) = 0 THEN (IF carry = 0 THEN <<>> ELSE <<carry>>)
  ELSE TimesLimb(limbs, k, limbs[Len(limbs)] * k + carry)

\* The double x * k, for a positive double x and a natural k, 1 <= k < 32768.
MultiplyDouble(x, k) == RoundToDouble(LimbsToBits(TimesLimbs(BitsToLimbs(x.bits), k, 0)), x.exp, FALSE)

\* Math.floor and Math.ceil of a positive double below 2^31.
FloorDouble(x) == IF Len(x.bits) + x.exp <= 0 THEN 0 ELSE BitsNat(SubSeq(x.bits, 1, Len(x.bits) + x.exp))
HasFraction(x) == \E j \in 1..Len(x.bits) : j > Len(x.bits) + x.exp /\ x.bits[j] = 1
CeilDouble(x) == FloorDouble(x) + (IF HasFraction(x) THEN 1 ELSE 0)

\* A whole number as a value, and the whole number a value spells.
IntVal(n) == [t |-> "num", v |-> (IF n < 0 THEN <<"-">> ELSE <<>>) \o IntToStr(IF n < 0 THEN 0 - n ELSE n)]
IsWhole(x) == x.t = "num" /\ ~Includes(x.v, ".")
WholeOf(x) == IF x.v[1] = "-" THEN 0 - ToInt(Tail(x.v)) ELSE ToInt(x.v)

\* num of buildPipelineWithPercent for a count total >= 1 and the parsed pct:
\*   pct >= 0 ? Math.ceil((total / 100) * pct) : Math.floor((total / 100) * -pct)
\* NaN for a pct that is NaN.  The percentOfResult tokens of the model spell
\* whole numbers or no number.
NumOf(total, p) ==
  IF p = 0 THEN IntVal(0)
  ELSE IF p > 0 THEN IntVal(CeilDouble(MultiplyDouble(DivideDouble(total, 100), p)))
  ELSE IntVal(FloorDouble(MultiplyDouble(DivideDouble(total, 100), 0 - p)))

TruncationCount(total, pct) == IF ~IsWhole(pct) THEN NaN ELSE NumOf(total, WholeOf(pct))

\* The stages the percentOfResult step pushes after a count of total.
SkipAndLimit(total, pct, num) ==
  (IF IsWhole(pct) /\ WholeOf(pct) < 0 THEN <<Skip(IntVal(total - WholeOf(num)))>> ELSE <<>>) \o <<Limit(num)>>

Truncation(total, pct) == IF total = 0 THEN <<>> ELSE SkipAndLimit(total, pct, TruncationCount(total, pct))

TruncationStages(total, percentOfResult) == Truncation(total, parseFloat(percentOfResult))


\* The loop of buildPipelineWithPercent from filter number i on, up to its next
\* await: "await" at filter i with the count query to send, "done" after the
\* last filter, "throw" when buildMatch throws.
RECURSIVE PercentLoop(_, _, _)
\* A step that counts for every percentOfResult that is a string, the empty
\* one too.
PercentStep_CountsAlways(fs, k, acc, stage) ==
  IF stage.k = "throw" THEN [k |-> "throw", error |-> stage.error, i |-> k, stages |-> acc]
  ELSE IF stage.k = "null" THEN PercentLoop(fs, k + 1, acc)
  ELSE IF IsString(fs[k].percentOfResult)
       THEN [k |-> "await", error |-> "", i |-> k, stages |-> Append(acc, stage.stage)]
       ELSE PercentLoop(fs, k + 1, Append(acc, stage.stage))

PercentStep(fs, k, acc, stage) ==
  IF stage.k = "throw" THEN [k |-> "throw", error |-> stage.error, i |-> k, stages |-> acc]
  ELSE IF stage.k = "null" THEN PercentLoop(fs, k + 1, acc)
  ELSE IF Truthy(fs[k].percentOfResult)
       THEN [k |-> "await", error |-> "", i |-> k, stages |-> Append(acc, stage.stage)]
       ELSE PercentLoop(fs, k + 1, Append(acc, stage.stage))

PercentLoop(fs, k, acc) ==
  IF k > Len(fs) THEN [k |-> "done", error |-> "", i |-> k, stages |-> acc]
  ELSE PercentStep(fs, k, acc, buildMatch(fs[k]))

\* ------------------------------------------------------------------------
\* getFiltersFromUrl
\* ------------------------------------------------------------------------
\* String.prototype.includes for a substring.
IncludesString(s, sub) ==
  \E j \in 0..(Len(s) - Len(sub)) : SubSeq(s, j + 1, j + Len(sub)) = sub

\* Array.prototype.filter.
RECURSIVE Without(_, _)
Without(list, sub) ==
  IF Len(list) = 0 THEN <<>>
  ELSE (IF IncludesString(list[1], sub) THEN <<>> ELSE <<list[1]>>) \o Without(Tail(list), sub)

\* getFiltersFromUrl(url, tenantValue, tenantField = "shopDomain"): the default
\* applies to an undefined tenantField.
WithTenant(tenantField, tenantValue, parsed) ==
  IF Truthy(tenantValue)
  THEN <<[field |-> Str(tenantField), type |-> Str(s_string), operator |-> Str(s_eq),
          value |-> tenantValue, percentOfResult |-> Undefined]>> \o parsed
  ELSE parsed

FiltersFor(filterParams, tenantValue, tenantField) ==
  WithTenant(tenantField, tenantValue, parseFilters(Without(filterParams, tenantField)))

getFiltersFromUrl(filterParams, tenantValue, tenantFieldArg) ==
  FiltersFor(filterParams, tenantValue, IF IsUndefined(tenantFieldArg) THEN s_shopDomain ELSE tenantFieldArg.s)

\* ------------------------------------------------------------------------
\* State.
\*   op        the entry point that was called
\*   request   the decoded search parameters of the request URL
\*   options   the FetchOptions of the call
\*   models    the sources: [name, initialPipeline, finalPipeline] each
\*   args      the other arguments of the call: fetchItem's id, fetchItemBy's
\*             field and value
\*   pc        where the call stands
\*   filters   the filter descriptors in hand
\*   i         the index of the filter buildPipelineWithPercent is at
\*   pipeline  the stage list under construction
\*   calls     the queries handed to the engine so far, in order, each with
\*             the answer it got
\*   total     the count the engine last answered
\*   result    what the call returned or threw
\* ------------------------------------------------------------------------
VARIABLES op, request, options, models, args, pc, filters, i, pipeline, calls, total, result

vars == <<op, request, options, models, args, pc, filters, i, pipeline, calls, total, result>>
inputs == <<op, request, options, models, args>>

NoResult == [k |-> "none", error |-> "", stages |-> <<>>, page |-> NaN, total |-> 0, items |-> <<>>]
Returned(stages) == [k |-> "value", error |-> "", stages |-> stages, page |-> NaN, total |-> 0, items |-> <<>>]
Threw(error) == [k |-> "error", error |-> error, stages |-> <<>>, page |-> NaN, total |-> 0, items |-> <<>>]
\* A result whose total is the number of items of the page.
ListResult_CountsItems(page, n, items) ==
  [k |-> "value", error |-> "", stages |-> <<>>, page |-> page, total |-> Len(items), items |-> items]

ListResult(page, n, items) == [k |-> "value", error |-> "", stages |-> <<>>, page |-> page, total |-> n, items |-> items]

NoOptions ==
  [limit |-> Undefined, sortField |-> Undefined, sortDir |-> Undefined,
   tenantField |-> Undefined, tenantValue |-> Undefined]

\* The search parameters of a URL that carries only filter parameters.
FiltersOnly(list) ==
  [filter |-> list, page |-> Undefined, limit |-> Undefined, sort |-> Undefined,
   export |-> Undefined, countResultOnly |-> Undefined, id |-> Undefined]

NoArgs == [id |-> Undefined, field |-> <<>>, value |-> NaN]

\* A query handed to the engine: a count on behalf of filter number at, the
\* total count, or the data query.
NoAnswer == 0 - 1
Query(kind, model, stages, at) ==
  [kind |-> kind, model |-> model, stages |-> stages, at |-> at, answer |-> NoAnswer]
Answered(log, n) == [log EXCEPT ![Len(log)].answer = n]

\* ------------------------------------------------------------------------
\* Inputs of the compiler runs: filter strings joined from tokens.
\* ------------------------------------------------------------------------
MaxOthers == 1

FieldTokens == {<<>>, s_id, s__id, s_name, s_price, s_cancellationType}
TypeTokens == {s_string, s_date, s_amount, s_array, <<"a","b","c">>}
OperatorTokens == OwnOperatorKeys \cup {s_constructor, <<>>}
ShortValueTokens ==
  { <<>>, <<"a","b","c">>, <<"1","0","0">>, <<"1",".","5">>, <<"a",",","b">>, <<"1",",","2">>,
    <<"2","0","2","4","-","0","1","-","0","1">>,
    <<"2","0","2","4","-","0","1","-","0","1","~","2","0","2","4","-","0","1","-","0","2">>,
    <<"2","0","2","4","-","1","3","-","0","1">>,
    <<"1","0","~","2","0">>, <<"a","(">>, <<"x","~","y">>, <<"x","~","y","~","z">> }
FullValueTokens ==
  { <<>>, <<"a","b","c">>, <<"1","0","0">>, <<"a",",","b">>,
    <<"2","0","2","4","-","0","1","-","0","1">>,
    <<"2","0","2","4","-","0","1","-","0","1","~","2","0","2","4","-","0","1","-","0","2">>,
    <<"1","0","~","2","0">>, <<"a","(">>, <<"x","~","y","~","z">> }
PercentTokens == {<<"1","0">>, <<"-","1","0">>}

\* The token lists a filter string of the runs is joined from.
ProbeTokenLists ==
  { <<f>> : f \in FieldTokens }
  \cup { <<f, v>> : f \in FieldTokens, v \in ShortValueTokens }
  \cup { <<f, a, b>> : f \in {s_id, s_price}, a \in {<<>>, <<"a","b","c">>}, b \in {<<>>, <<"1","0","0">>} }
  \cup { <<f, ty, o, v>> : f \in {<<>>, s_id, s_price}, ty \in TypeTokens, o \in OperatorTokens, v \in FullValueTokens }
  \cup { <<s_price, s_amount, s_gt, <<"5">>, p>> : p \in PercentTokens }
  \cup { <<s_price, s_amount, s_gt, <<"5">>, p, <<"x">>>> : p \in PercentTokens }

\* A date value handed to the engine's own date grammar is outside the model.
HasLegacyDate(filter) ==
  /\ ~Incomplete(filter)
  /\ filter.type.s = s_date
  /\ Supported(s_date, filter.operator.s) = "yes"
  /\ \/ filter.value.k = "string" /\ filter.operator.s # s_range /\ IsLegacyDateText(filter.value.s)
     \/ filter.value.k = "range" /\ (IsLegacyDateText(filter.value.s) \/ IsLegacyDateText(filter.value.t))

ProbeStrings == { s \in { Join(tl, "|") : tl \in ProbeTokenLists } : ~HasLegacyDate(parseFilter(s)) }

PlainStrings == { Join(<<s_name, <<"a","b","c">>>>, "|"), Join(<<s_price, s_amount, s_gt, <<"5">>>>, "|") }

\* Sequences over S of length at most n.
SeqsUpTo(S, n) == UNION { [1..k -> S] : k \in 0..n }

\* list with x inserted so that it becomes element number pos.
InsertAt(list, pos, x) == SubSeq(list, 1, pos-1) \o <<x>> \o SubSeq(list, pos, Len(list))

\* list without its element number pos.
RemoveAt(list, pos) == SubSeq(list, 1, pos-1) \o SubSeq(list, pos+1, Len(list))

CompileInputs ==
  UNION { { InsertAt(others, pos, probe) : probe \in ProbeStrings, pos \in 1..(Len(others)+1) } :
          others \in SeqsUpTo(PlainStrings, MaxOthers) }

\* Inputs of the runs of buildPipelineWithPercent: lists over a few filter
\* strings, and every percentOfResult token on a list of its own.
MaxPercentFilters == 2
AllPercentTokens ==
  {<<"1","0">>, <<"-","1","0">>, <<"1","0","0">>, <<"-","1","0","0">>, <<"5","0">>, <<"-","5","0">>, <<"0">>, <<"x">>}
WithPercent(p) == Join(<<s_price, s_amount, s_gt, <<"5">>, p>>, "|")
PercentStrings ==
  { WithPercent(<<"1","0">>), WithPercent(<<"-","1","0">>), WithPercent(<<"1","0","0">>),
    Join(<<s_price, s_amount, s_gt, <<"5">>>>, "|"),
    Join(<<s_price, s_amount, s_has, <<"5">>, <<"1","0">>>>, "|") }
PercentInputs == SeqsUpTo(PercentStrings, MaxPercentFilters) \cup { <<WithPercent(p)>> : p \in AllPercentTokens }

\* ------------------------------------------------------------------------
\* parseFilters followed by buildPipeline, called on a list of filter strings.
\* ------------------------------------------------------------------------
InitCompile ==
  /\ op = "buildPipeline"
  /\ request \in { FiltersOnly(l) : l \in CompileInputs }
  /\ options = NoOptions
  /\ args = NoArgs
  /\ models = <<>>
  /\ pc = "start"
  /\ filters = <<>>
  /\ i = 0
  /\ pipeline = <<>>
  /\ calls = <<>>
  /\ total = 0
  /\ result = NoResult

CallParseFilters ==
  /\ op \in {"buildPipeline", "buildPipelineWithPercent"} /\ pc = "start"
  /\ filters' = parseFilters(request.filter)
  /\ pc' = "parsed"
  /\ UNCHANGED <<inputs, i, pipeline, calls, total, result>>

Compiled(r) ==
  /\ pc' = IF r.k = "throw" THEN "thrown" ELSE "returned"
  /\ pipeline' = r.stages
  /\ result' = IF r.k = "throw" THEN Threw(r.error) ELSE Returned(r.stages)

CallBuildPipeline ==
  /\ op = "buildPipeline" /\ pc = "parsed"
  /\ Compiled(buildPipeline(filters))
  /\ UNCHANGED <<inputs, filters, i, calls, total>>

NextCompile == CallParseFilters \/ CallBuildPipeline

SpecCompile == InitCompile /\ [][NextCompile]_vars

\* ------------------------------------------------------------------------
\* Pagination and sort parameters.  Page and limit parameters of the model
\* spell whole numbers or no number.
\* ------------------------------------------------------------------------
DefaultLimit == 250

\* a || b for a search parameter a and a number b.
NumberOr(param, fallback) == IF Truthy(param) THEN Number(param.s) ELSE fallback

MathMin(a, b) ==
  IF ~IsWhole(a) \/ ~IsWhole(b) THEN NaN
  ELSE IF WholeOf(a) <= WholeOf(b) THEN a ELSE b

MathMax(a, b) ==
  IF ~IsWhole(a) \/ ~IsWhole(b) THEN NaN
  ELSE IF WholeOf(a) >= WholeOf(b) THEN a ELSE b

maxLimit == IF IsUndefined(options.limit) THEN IntVal(DefaultLimit) ELSE Number(options.limit.s)
limit == MathMin(NumberOr(request.limit, maxLimit), maxLimit)
page == MathMax(NumberOr(request.page, IntVal(1)), IntVal(1))
skip == IF ~IsWhole(page) \/ ~IsWhole(limit) THEN NaN ELSE IntVal((WholeOf(page) - 1) * WholeOf(limit))
isExporting == Truthy(request.export)
\* A countOnly flag read from the export parameter.
countOnly_ReadsExport == Truthy(request.export)

countOnly == Truthy(request.countResultOnly)


toLowerCase(s) ==
  [j \in 1..Len(s) |->
     CASE s[j] = "A" -> "a" [] s[j] = "B" -> "b" [] s[j] = "C" -> "c" [] s[j] = "D" -> "d"
       [] s[j] = "E" -> "e" [] s[j] = "S" -> "s" [] OTHER -> s[j]]

\* const [sortBy, sortDirection] = sortParam?.split("|") || []
sortParts == IF IsString(request.sort) THEN SplitAll(request.sort.s, "|") ELSE <<>>
sortBy == IF Len(sortParts) >= 1 THEN Str(sortParts[1]) ELSE Undefined
sortDirection == IF Len(sortParts) >= 2 THEN Str(sortParts[2]) ELSE Undefined

\* A sort stage that takes its direction from the options alone.
SortStage_IgnoresUrlDirection ==
  Sort(IF Truthy(sortBy) THEN sortBy.s
       ELSE IF IsUndefined(options.sortField) THEN <<"u","p","d","a","t","e","d","A","t">> ELSE options.sortField.s,
       IF IsString(options.sortDir) /\ options.sortDir.s = <<"a","s","c">> THEN "1" ELSE "-1")

SortStage ==
  LET sortField == IF IsUndefined(options.sortField) THEN <<"u","p","d","a","t","e","d","A","t">> ELSE options.sortField.s
      sortDir == IF IsUndefined(options.sortDir) THEN <<"d","e","s","c">> ELSE options.sortDir.s
      field == IF Truthy(sortBy) THEN sortBy.s ELSE sortField
      dir == IF IsString(sortDirection) /\ toLowerCase(sortDirection.s) = <<"a","s","c">> THEN "1"
             ELSE IF IsString(sortDirection) /\ toLowerCase(sortDirection.s) = <<"d","e","s","c">> THEN "-1"
             ELSE IF sortDir = <<"a","s","c">> THEN "1" ELSE "-1"
  IN Sort(field, dir)

\* if (!isExporting && limit > 0) pipeline.push({ $skip: skip }, { $limit: limit })
Pagination ==
  IF ~isExporting /\ IsWhole(limit) /\ WholeOf(limit) > 0 THEN <<Skip(skip), Limit(limit)>> ELSE <<>>

hasSortStage(stages) == \E j \in 1..Len(stages) : stages[j].kind = "$sort"

\* ------------------------------------------------------------------------
\* Inputs of the fetch runs.
\* ------------------------------------------------------------------------
MaxUrlFilters == 2
MaxTotal == 7

s_org == <<"o","r","g">>
CallerStage(tag) == [kind |-> "$match", field |-> tag, cond |-> "caller", args |-> <<>>, sub |-> <<>>]
Pre == CallerStage(<<"p","r","e">>)
Post == CallerStage(<<"p","o","s","t">>)

UrlFilterStrings ==
  { Join(<<s_name, <<"a","b","c">>>>, "|"),
    Join(<<s_price, s_amount, s_gt, <<"5">>, <<"1","0">>>>, "|"),
    Join(<<s_org, s_string, s_eq, <<"z","z">>>>, "|"),
    Join(<<s_name, <<"o","r","g","a","n">>>>, "|") }

TenantFields == {Undefined, Str(s_org)}
TenantValues == {Undefined, Str(<<"A","b">>), Str(<<"a","b">>)}

Source(name, initialPipeline, finalPipeline) ==
  [name |-> name, initialPipeline |-> initialPipeline, finalPipeline |-> finalPipeline]

BaseSources == { Source(<<"A">>, ip, fp) : ip \in {<<>>, <<Pre>>}, fp \in {<<>>, <<Post>>} }
OtherSources == { Source(<<"B">>, <<>>, <<>>), Source(<<"B">>, <<Pre>>, <<Post>>) }
UnifiedSources == {<<>>} \cup { <<b>> : b \in BaseSources } \cup { <<b, o>> : b \in BaseSources, o \in OtherSources }

FetchRequests ==
  { [FiltersOnly(l) EXCEPT !.countResultOnly = c] :
      l \in SeqsUpTo(UrlFilterStrings, MaxUrlFilters), c \in {Undefined, Str(<<"1">>)} }

FetchOptions == { [NoOptions EXCEPT !.tenantField = tf, !.tenantValue = tv] : tf \in TenantFields, tv \in TenantValues }

\* The counts the engine answers a query with.
EngineCounts == IF op = "buildPipelineWithPercent" THEN 0..MaxTotal \cup {100} ELSE {0, MaxTotal}
EngineItems == { <<>>, <<"doc">> }

\* ------------------------------------------------------------------------
\* buildPipelineWithPercent, one action per stretch of code between awaits.
\* ------------------------------------------------------------------------
\* What follows the loop's stretch r: the next count query, the throw, or what
\* the caller does with the returned filter pipeline.
ModelName == IF Len(models) > 0 THEN models[1].name ELSE <<>>

AfterPercentLoop(r, log) ==
  CASE r.k = "await" ->
         /\ pc' = "percent"
         /\ i' = r.i
         /\ pipeline' = r.stages
         /\ calls' = Append(log, Query("percent", ModelName, Append(r.stages, Count), r.i))
         /\ result' = result
    [] r.k = "throw" ->
         /\ pc' = "thrown"
         /\ i' = r.i
         /\ pipeline' = r.stages
         /\ calls' = log
         /\ result' = Threw(r.error)
    [] r.k = "done" /\ op = "buildPipelineWithPercent" ->
         /\ pc' = "returned"
         /\ i' = r.i
         /\ pipeline' = r.stages
         /\ calls' = log
         /\ result' = Returned(r.stages)
    [] r.k = "done" /\ op = "fetchList" ->
         /\ pc' = "total"
         /\ i' = r.i
         /\ pipeline' = models[1].initialPipeline \o r.stages
         /\ calls' = Append(log, Query("total", ModelName, Append(models[1].initialPipeline \o r.stages, Count), 0))
         /\ result' = result

InitPercent ==
  /\ op = "buildPipelineWithPercent"
  /\ request \in { FiltersOnly(l) : l \in PercentInputs }
  /\ options = NoOptions
  /\ args = NoArgs
  /\ models = <<Source(<<"A">>, <<>>, <<>>)>>
  /\ pc = "start"
  /\ filters = <<>>
  /\ i = 0
  /\ pipeline = <<>>
  /\ calls = <<>>
  /\ total = 0
  /\ result = NoResult

CallBuildPipelineWithPercent ==
  /\ op = "buildPipelineWithPercent" /\ pc = "parsed"
  /\ AfterPercentLoop(PercentLoop(filters, 1, <<>>), calls)
  /\ UNCHANGED <<inputs, filters, total>>

\* The engine answers the count of a percentOfResult filter.
ReplyPercent ==
  /\ pc = "percent"
  /\ \E n \in EngineCounts :
       /\ total' = n
       /\ AfterPercentLoop(PercentLoop(filters, i + 1, pipeline \o TruncationStages(n, filters[i].percentOfResult)),
                           Answered(calls, n))
  /\ UNCHANGED <<inputs, filters>>

\* A rejection that is caught and turned into an empty result.
EngineRejects_Swallows ==
  /\ pc \in {"percent", "total", "items", "item"}
  /\ pc' = "returned"
  /\ result' = Returned(<<>>)
  /\ UNCHANGED <<inputs, filters, i, pipeline, calls, total>>

\* The engine rejects the query in flight.
EngineRejects ==
  /\ pc \in {"percent", "total", "items", "item"}
  /\ pc' = "thrown"
  /\ result' = Threw("EngineError")
  /\ UNCHANGED <<inputs, filters, i, pipeline, calls, total>>

NextPercent == CallParseFilters \/ CallBuildPipelineWithPercent \/ ReplyPercent \/ EngineRejects

SpecPercent == InitPercent /\ [][NextPercent]_vars

\* ------------------------------------------------------------------------
\* fetchList and fetchUnifiedList.
\* ------------------------------------------------------------------------
Init ==
  /\ \/ /\ op = "fetchList"
        /\ models \in { <<b>> : b \in BaseSources }
     \/ /\ op = "fetchUnifiedList"
        /\ models \in UnifiedSources
  /\ request \in FetchRequests
  /\ options \in FetchOptions
  /\ args = NoArgs
  /\ pc = "start"
  /\ filters = <<>>
  /\ i = 0
  /\ pipeline = <<>>
  /\ calls = <<>>
  /\ total = 0
  /\ result = NoResult

FetchListWith(fs) ==
  /\ filters' = fs
  /\ AfterPercentLoop(PercentLoop(fs, 1, <<>>), calls)

CallFetchList ==
  /\ op = "fetchList" /\ pc = "start"
  /\ FetchListWith(getFiltersFromUrl(request.filter, options.tenantValue, options.tenantField))
  /\ UNCHANGED <<inputs, total>>

\* tenantField ?? ""
OrEmpty(x) == IF IsUndefined(x) THEN Str(<<>>) ELSE x

\* A union stage whose sub-pipeline is tagged with the base's name.
UnionStage_TagsBase(cfg, filterPipeline) ==
  UnionWith(cfg.name, cfg.initialPipeline \o filterPipeline \o <<AddSourceType(models[1].name)>> \o cfg.finalPipeline)

\* The pipeline of fetchUnifiedList up to its total count.
UnionStage(cfg, filterPipeline) ==
  UnionWith(cfg.name, cfg.initialPipeline \o filterPipeline \o <<AddSourceType(cfg.name)>> \o cfg.finalPipeline)

UnifiedPipeline(filterPipeline) ==
  models[1].initialPipeline \o filterPipeline \o <<AddSourceType(models[1].name)>>
    \o [j \in 1..(Len(models) - 1) |-> UnionStage(models[j + 1], filterPipeline)]
    \o models[1].finalPipeline

CountUnified(stages) ==
  /\ pc' = "total"
  /\ pipeline' = stages
  /\ calls' = Append(calls, Query("total", models[1].name, Append(stages, Count), 0))
  /\ result' = result

UnifiedWith(r) ==
  IF r.k = "throw"
  THEN /\ pc' = "thrown"
       /\ result' = Threw(r.error)
       /\ UNCHANGED <<pipeline, calls>>
  ELSE CountUnified(UnifiedPipeline(r.stages))

FetchUnifiedListWith(fs) ==
  /\ filters' = fs
  /\ UnifiedWith(buildPipeline(fs))

CallFetchUnifiedList ==
  /\ op = "fetchUnifiedList" /\ pc = "start"
  /\ IF Len(models) = 0
     THEN /\ pc' = "returned"
          /\ result' = ListResult(IntVal(1), 0, <<>>)
          /\ UNCHANGED <<filters, pipeline, calls>>
     ELSE FetchUnifiedListWith(getFiltersFromUrl(request.filter, options.tenantValue, OrEmpty(options.tenantField)))
  /\ UNCHANGED <<inputs, i, total>>

\* A data pipeline that pushes the final pipeline before the sort.
DataPipeline_FinalBeforeSort ==
  IF op = "fetchList"
  THEN pipeline \o models[1].finalPipeline \o (IF hasSortStage(pipeline) THEN <<>> ELSE <<SortStage>>) \o Pagination
  ELSE pipeline \o <<SortStage>> \o Pagination

\* The pipeline of the data query, from the pipeline the total was counted on.
DataPipeline ==
  IF op = "fetchList"
  THEN pipeline \o (IF hasSortStage(pipeline) THEN <<>> ELSE <<SortStage>>) \o models[1].finalPipeline \o Pagination
  ELSE pipeline \o <<SortStage>> \o Pagination

\* A data query whose sort stage is put ahead of the counted pipeline.
QueryItems_SortsFirst(stages, n) ==
  /\ pc' = "items"
  /\ pipeline' = <<SortStage>> \o pipeline \o Pagination
  /\ calls' = Append(Answered(calls, n), Query("items", models[1].name, <<SortStage>> \o pipeline \o Pagination, 0))
  /\ UNCHANGED result

\* The data query follows the answer to the total count.
QueryItems(stages, n) ==
  /\ pc' = "items"
  /\ pipeline' = stages
  /\ calls' = Append(Answered(calls, n), Query("items", models[1].name, stages, 0))
  /\ UNCHANGED result

ReplyTotal ==
  /\ pc = "total"
  /\ \E n \in EngineCounts :
       /\ total' = n
       /\ IF countOnly
          THEN /\ pc' = "returned"
               /\ result' = ListResult(page, n, <<>>)
               /\ calls' = Answered(calls, n)
               /\ UNCHANGED pipeline
          ELSE QueryItems(DataPipeline, n)
  /\ UNCHANGED <<inputs, filters, i>>

\* The engine answers the data query.
ReplyItems ==
  /\ pc = "items"
  /\ \E items \in EngineItems :
       /\ result' = ListResult(page, total, items)
       /\ calls' = Answered(calls, Len(items))
  /\ pc' = "returned"
  /\ UNCHANGED <<inputs, filters, i, pipeline, total>>

Next ==
  \/ CallFetchList
  \/ CallFetchUnifiedList
  \/ ReplyPercent
  \/ ReplyTotal
  \/ ReplyItems
  \/ EngineRejects

Spec == Init /\ [][Next]_vars

\* ------------------------------------------------------------------------
\* fetchList and fetchUnifiedList on URLs that vary page, limit, sort, export
\* and countResultOnly.
\* ------------------------------------------------------------------------
PageTokens == {Undefined, Str(<<>>), Str(<<"2">>), Str(<<"0">>), Str(<<"-","1">>), Str(<<"a","b","c">>)}
LimitTokens ==
  {Undefined, Str(<<"1","0">>), Str(<<"0">>), Str(<<"-","5">>), Str(<<"9","9","9">>), Str(<<"a","b","c">>)}
SortTokens ==
  {Undefined, Str(<<>>), Str(s_name), Str(s_name \o <<"|","a","s","c">>), Str(s_name \o <<"|","D","E","S","C">>),
   Str(s_name \o <<"|","u","p">>), Str(<<"|","a","s","c">>)}
FlagTokens == {Undefined, Str(<<"1">>)}

\* A source whose initial pipeline sorts already.
SortedSource == Source(<<"A">>, <<Pre, Sort(s_price, "1")>>, <<Post>>)

PagingFilterStrings ==
  { Join(<<s_name, <<"a","b","c">>>>, "|"),
    Join(<<s_price, s_amount, s_gt, <<"5">>, <<"1","0">>>>, "|"),
    Join(<<s_price, s_amount, s_gt, <<"5">>, <<>>>>, "|"),
    Join(<<s_price, s_amount, s_has, <<"5">>, <<"1","0">>>>, "|") }

Call(name, req, opts, sources) ==
  [op |-> name, request |-> req, options |-> opts, models |-> sources, args |-> NoArgs]

\* The calls that vary the page and the limit.
PageCalls ==
  { Call(name, [FiltersOnly(<<>>) EXCEPT !.page = p, !.limit = l, !.export = e, !.countResultOnly = c],
         [NoOptions EXCEPT !.limit = m], <<Source(<<"A">>, <<>>, <<Post>>), Source(<<"B">>, <<>>, <<>>)>>) :
      name \in {"fetchList", "fetchUnifiedList"}, p \in PageTokens, l \in LimitTokens,
      e \in FlagTokens, c \in FlagTokens, m \in {Undefined, Str(<<"5","0">>)} }

\* The calls that vary the sort.
SortCalls ==
  { Call(name, [FiltersOnly(<<Join(<<s_name, <<"a","b","c">>>>, "|")>>) EXCEPT !.sort = s],
         [NoOptions EXCEPT !.sortField = f, !.sortDir = d], <<src>>) :
      name \in {"fetchList", "fetchUnifiedList"}, s \in SortTokens,
      f \in {Undefined, Str(s_price)}, d \in {Undefined, Str(<<"a","s","c">>), Str(<<"d","e","s","c">>)},
      src \in BaseSources \cup {SortedSource} }

\* The calls that vary the filters.
FilterCalls ==
  { Call("fetchList", [FiltersOnly(l) EXCEPT !.countResultOnly = c, !.export = e],
         [NoOptions EXCEPT !.tenantValue = tv], <<src>>) :
      l \in SeqsUpTo(PagingFilterStrings, MaxUrlFilters), c \in FlagTokens, e \in FlagTokens,
      tv \in {Undefined, Str(<<"a","b">>)}, src \in {Source(<<"A">>, <<>>, <<>>), Source(<<"A">>, <<Pre>>, <<Post>>)} }

InitPaging ==
  /\ \E c \in PageCalls \cup SortCalls \cup FilterCalls :
       /\ op = c.op
       /\ request = c.request
       /\ options = c.options
       /\ models = c.models
  /\ args = NoArgs
  /\ pc = "start"
  /\ filters = <<>>
  /\ i = 0
  /\ pipeline = <<>>
  /\ calls = <<>>
  /\ total = 0
  /\ result = NoResult

SpecPaging == InitPaging /\ [][Next]_vars

\* ------------------------------------------------------------------------
\* fetchItem and fetchItemBy, and the runs of every entry point that talks to
\* the engine.
\* ------------------------------------------------------------------------
\* An id argument that is a number, kept as the text String(id) gives.
Num(text) == [k |-> "number", s |-> text, t |-> <<>>]

\* !id is false: a non-empty string, or a number other than 0.
IdGiven(id) == Truthy(id) \/ (id.k = "number" /\ id.s # <<"0">>)

\* if (!id) id = searchParams.get("id") ?? undefined
ItemId == IF IdGiven(args.id) THEN args.id ELSE request.id

\* An item pipeline that never turns the id into an ObjectId.
ItemPipeline_StringIdOnly(idStr) ==
  models[1].initialPipeline
    \o <<Match(<<>>, "$or:id,id,_id", <<StrVal(idStr), Number(idStr), StrVal(idStr)>>)>>
    \o models[1].finalPipeline \o <<Limit(IntVal(1))>>

\* [...initialPipeline, {$match: {$or: [{id}, {id: Number}, {_id}]}}, ...finalPipeline, {$limit: 1}]
ItemPipeline(idStr) ==
  models[1].initialPipeline
    \o <<Match(<<>>, "$or:id,id,_id", <<StrVal(idStr), Number(idStr), ObjectIdOrString(idStr)>>)>>
    \o models[1].finalPipeline \o <<Limit(IntVal(1))>>

\* [...pipeline, {$match: {[field]: value}}, {$limit: 1}]
ItemByPipeline == models[1].initialPipeline \o <<Match(args.field, "", <<args.value>>), Limit(IntVal(1))>>

\* A lookup that answers null whatever the engine found.
ItemResult_AlwaysNull(docs) == Returned(<<>>)

\* result?.[0] ?? null: the first document, or no item for null.
ItemResult(docs) == [Returned(<<>>) EXCEPT !.items = IF Len(docs) > 0 THEN <<docs[1]>> ELSE <<>>]

CallFetchItem ==
  /\ op = "fetchItem" /\ pc = "start"
  /\ IF ~IdGiven(ItemId)
     THEN /\ pc' = "returned"
          /\ result' = ItemResult(<<>>)
          /\ UNCHANGED <<pipeline, calls>>
     ELSE /\ pc' = "item"
          /\ pipeline' = ItemPipeline(ItemId.s)
          /\ calls' = Append(calls, Query("item", ModelName, ItemPipeline(ItemId.s), 0))
          /\ UNCHANGED result
  /\ UNCHANGED <<inputs, filters, i, total>>

CallFetchItemBy ==
  /\ op = "fetchItemBy" /\ pc = "start"
  /\ pc' = "item"
  /\ pipeline' = ItemByPipeline
  /\ calls' = Append(calls, Query("item", ModelName, ItemByPipeline, 0))
  /\ UNCHANGED <<inputs, filters, i, total, result>>

\* The engine answers the query of fetchItem or fetchItemBy.
ReplyItem ==
  /\ pc = "item"
  /\ \E docs \in EngineItems :
       /\ result' = ItemResult(docs)
       /\ calls' = Answered(calls, Len(docs))
  /\ pc' = "returned"
  /\ UNCHANGED <<inputs, filters, i, pipeline, total>>

s_objectId == <<"5","0","7","f","1","f","7","7","b","c","f","8","6","c","d","7","9","9","4","3","9","0","1","1">>

IdTokens == {Undefined, Str(<<>>), Str(<<"7">>), Str(<<"a","b","c">>), Str(s_objectId)}

\* The calls of fetchItem and fetchItemBy.
ItemCalls ==
  { [Call("fetchItem", [FiltersOnly(<<>>) EXCEPT !.id = u], NoOptions, <<src>>) EXCEPT !.args = [NoArgs EXCEPT !.id = a]] :
      u \in IdTokens, a \in IdTokens \cup {Num(<<"0">>), Num(<<"7">>)}, src \in BaseSources }
  \cup
  { [Call("fetchItemBy", FiltersOnly(<<>>), NoOptions, <<src>>) EXCEPT !.args = [NoArgs EXCEPT !.field = f, !.value = v]] :
      f \in {s_name, s_id}, v \in {StrVal(<<"a","b","c">>), IntVal(7)}, src \in BaseSources }

\* The calls of fetchUnifiedList that name no source.
EmptyCalls ==
  { Call("fetchUnifiedList", [FiltersOnly(l) EXCEPT !.countResultOnly = c], NoOptions, <<>>) :
      l \in SeqsUpTo(PagingFilterStrings, 1), c \in FlagTokens }

\* The calls of buildPipelineWithPercent.
PercentCalls == { Call("buildPipelineWithPercent", FiltersOnly(l), NoOptions, <<Source(<<"A">>, <<>>, <<>>)>>) : l \in PercentInputs }

InitEngine ==
  /\ \E c \in PageCalls \cup FilterCalls \cup PercentCalls \cup ItemCalls \cup EmptyCalls :
       /\ op = c.op
       /\ request = c.request
       /\ options = c.options
       /\ models = c.models
       /\ args = c.args
  /\ pc = "start"
  /\ filters = <<>>
  /\ i = 0
  /\ pipeline = <<>>
  /\ calls = <<>>
  /\ total = 0
  /\ result = NoResult

NextEngine ==
  \/ CallParseFilters
  \/ CallBuildPipelineWithPercent
  \/ CallFetchList
  \/ CallFetchUnifiedList
  \/ CallFetchItem
  \/ CallFetchItemBy
  \/ ReplyPercent
  \/ ReplyTotal
  \/ ReplyItems
  \/ ReplyItem
  \/ EngineRejects

SpecEngine == InitEngine /\ [][NextEngine]_vars

\* ------------------------------------------------------------------------
\* Claims about the parser and the compiler, under SpecCompile.
\* ------------------------------------------------------------------------
Finished == pc \in {"returned", "thrown"}

\* The outcome of a compiler run as a result value.
Outcome(r) == IF r.k = "throw" THEN Threw(r.error) ELSE Returned(r.stages)

\* The compatibility table of the specification, type by type.
TableOperators(type) ==
  CASE type = s_string -> {s_eq, s_ne, s_has, s_nh, s_any, s_none}
    [] type = s_amount -> {s_eq, s_ne, s_range, s_lt, s_gt}
    [] type = s_date -> {s_eq, s_range, s_before, s_after}
    [] type = s_array -> {s_eq, s_ne, s_any, s_none}
    [] OTHER -> {}

PairInTable(filter) ==
  IsString(filter.type) /\ IsString(filter.operator) /\ filter.operator.s \in TableOperators(filter.type.s)

\* C1: buildPipeline emits a match stage for a descriptor only if its (type,
\* operator) pair is in the compatibility table; a descriptor with any other pair
\* produces no stage and no error, and the outcome of the run is the one the list
\* without that descriptor has.
C1_OffTableDescriptorIsDropped ==
  (op = "buildPipeline" /\ Finished) =>
    \A k \in 1..Len(filters) :
      ~PairInTable(filters[k]) => result = Outcome(buildPipeline(RemoveAt(filters, k)))

\* The pieces of a filter string between its "|" characters.
Tokens(s) == SplitAll(s, "|")
IsTwoToken(s) == Len(Tokens(s)) = 2

\* The type and the operator the specification gives a two-token string.
ClaimedType(field, value) ==
  IF Includes(value, ",") THEN s_array
  ELSE IF IsDateOrDateRange(value) THEN s_date
  ELSE IF IsDigitsAndDots(value) /\ field \notin {s_name, s_id, s_cancellationType} THEN s_amount
  ELSE s_string

ClaimedOperator(field, value) ==
  IF Includes(value, ",") THEN s_any
  ELSE IF Includes(value, "~") THEN s_range
  ELSE IF field \in {s_id, s__id} THEN s_eq
  ELSE s_has

FullForm(s, filter) == Join(<<Tokens(s)[1], filter.type.s, filter.operator.s, Tokens(s)[2]>>, "|")

\* The list with every two-token string replaced by its explicit full form.
FullForms(list, parsed) ==
  [k \in 1..Len(list) |-> IF IsTwoToken(list[k]) THEN FullForm(list[k], parsed[k]) ELSE list[k]]

\* C3: a short-form string field|value and its explicit full form field|T|O|value,
\* with T and O the type and operator parseFilter infers, compile to the same
\* outcome: the same stage list, or the same error.
C3_ShortEqualsFullForm ==
  (op = "buildPipeline" /\ Finished) =>
    result = Outcome(buildPipeline(parseFilters(FullForms(request.filter, filters))))

C3_Witness ==
  /\ op = "buildPipeline" /\ pc = "returned"
  /\ \E k \in 1..Len(filters) :
       /\ IsTwoToken(request.filter[k])
       /\ filters[k].value.k = "range"
       /\ filters[k].type = Str(s_date)
  /\ Len(result.stages) = Len(filters)

\* A value of digits only.
IsAllDigits(s) == Len(s) >= 1 /\ \A j \in 1..Len(s) : IsDigit(s[j])

\* C4: a short-form filter field|N, N all digits, on a field other than name, id
\* and cancellationType, compiles to one stage, which matches the documents whose
\* field equals the number N.
C4_ShortNumberIsEquality ==
  (op = "buildPipeline" /\ Finished /\ Len(request.filter) = 1 /\ IsTwoToken(request.filter[1])) =>
    LET tk == Tokens(request.filter[1])
    IN (IsAllDigits(tk[2]) /\ tk[1] # <<>> /\ tk[1] \notin {s_name, s_id, s_cancellationType}) =>
         result = Returned(<<Match(tk[1], "$eq", <<Number(tk[2])>>)>>)

\* A filter string with a missing field or no value.
IsMalformed(s) ==
  LET tk == Tokens(s)
  IN Len(tk) = 1 \/ tk[1] = <<>> \/ (Len(tk) = 2 /\ tk[2] = <<>>)

\* C5: a filter string with a missing field or no value (no "|", an empty field
\* token, an empty value token) yields a descriptor for which buildPipeline emits
\* no stage: the run ends as the run without that string does.
C5_MalformedIsDropped ==
  (op = "buildPipeline" /\ Finished) =>
    \A k \in 1..Len(filters) :
      IsMalformed(request.filter[k]) => result = Outcome(buildPipeline(RemoveAt(filters, k)))

\* C6: for every list of filter strings, buildPipeline(parseFilters(strings))
\* returns a stage list and raises no error.
C6_CompileNeverRaises == op = "buildPipeline" => pc # "thrown"

\* ------------------------------------------------------------------------
\* Claims about buildPipelineWithPercent, under SpecPercent.
\* ------------------------------------------------------------------------
\* The stages the specification gives the percentOfResult step after a count of
\* n, for a whole percentage p, in exact arithmetic.
ClaimedTruncation(n, p) ==
  IF n = 0 THEN <<>>
  ELSE IF p >= 0 THEN <<Limit(IntVal((n * p + 99) \div 100))>>
  ELSE <<Skip(IntVal(n - ((n * (0 - p)) \div 100))), Limit(IntVal((n * (0 - p)) \div 100))>>

\* The percentage of the filter a count query was sent for.
PercentOf(query) == parseFloat(filters[query.at].percentOfResult)

\* Whether stages holds the stage list part from position first on, and a match
\* stage or nothing after it.
HoldsAt(stages, first, part) ==
  /\ Len(stages) >= first - 1 + Len(part)
  /\ \A j \in 1..Len(part) : stages[first - 1 + j] = part[j]
  /\ Len(stages) > first - 1 + Len(part) => stages[first + Len(part)].kind = "$match"

\* C7: for a filter with percentOfResult p whose count is total > 0,
\* buildPipelineWithPercent appends directly after the filter's match stage a
\* single $limit of ceil(total*p/100) for p >= 0, and a $skip of
\* total - floor(total*|p|/100) followed by a $limit of floor(total*|p|/100) for
\* p < 0; after a count of 0 it appends neither.
C7_TruncationIsExactPercentage ==
  op = "buildPipelineWithPercent" =>
    \A c \in 1..Len(calls) :
      (calls[c].kind = "percent" /\ calls[c].answer # NoAnswer /\ IsWhole(PercentOf(calls[c]))) =>
        /\ calls[c].stages[Len(calls[c].stages) - 1].kind = "$match"
        /\ HoldsAt(pipeline, Len(calls[c].stages),
                   ClaimedTruncation(calls[c].answer, WholeOf(PercentOf(calls[c]))))

\* ------------------------------------------------------------------------
\* Claims about fetchList and fetchUnifiedList, under Spec.
\* ------------------------------------------------------------------------
\* C8: in fetchList, the count query that resolves a filter's percentOfResult is
\* run over the stage sequence that precedes the truncation in the pipeline of
\* the data query.
C8_PercentCountSeesExecutedPrefix ==
  op = "fetchList" =>
    \A c \in 1..Len(calls), d \in 1..Len(calls) :
      (calls[c].kind = "percent" /\ calls[c].answer > 0 /\ calls[d].kind = "items") =>
        \E q \in 1..Len(calls[d].stages) :
          /\ calls[d].stages[q].kind \in {"$skip", "$limit"}
          /\ SubSeq(calls[d].stages, 1, q - 1) \o <<Count>> = calls[c].stages

\* The tenant field the options configure: tenantField, or its documented default.
ConfiguredTenantField == IF IsUndefined(options.tenantField) THEN s_shopDomain ELSE options.tenantField.s

IsTenantStage(stage) == stage.kind = "$match" /\ stage.field = ConfiguredTenantField

\* Whether stages holds the tenant stage with nothing before it but stages of
\* the caller's initial pipeline.
TenantLeads(stages, initialPipeline) ==
  \E j \in 1..Len(stages) :
    /\ IsTenantStage(stages[j])
    /\ \A h \in 1..(j - 1) : \E g \in 1..Len(initialPipeline) : initialPipeline[g] = stages[h]

\* The initial pipeline of the source of a collection.
InitialPipelineOf(name) == (CHOOSE m \in { models[j] : j \in 1..Len(models) } : m.name = name).initialPipeline

\* C9: with a non-empty tenantValue in the options, every stage list fetchList or
\* fetchUnifiedList hands to the engine (percentage counts, the total count, the
\* data query, every union sub-pipeline) holds the tenant match stage on the
\* configured tenant field, before every stage derived from a URL filter.
C9_TenantStageInEveryQuery ==
  Truthy(options.tenantValue) =>
    \A c \in 1..Len(calls) :
      /\ TenantLeads(calls[c].stages, models[1].initialPipeline)
      /\ \A j \in 1..Len(calls[c].stages) :
           calls[c].stages[j].kind = "$unionWith" =>
             TenantLeads(calls[c].stages[j].sub, InitialPipelineOf(calls[c].stages[j].field))

\* How the engine reads a regular expression with the flag i, for a pattern of
\* the shape ^body$ whose body holds letters, digits and ".": the text has the
\* length of the body and agrees with it, letter case aside, wherever the body
\* has no ".".
RegexTest(pattern, text) ==
  /\ Len(pattern) = Len(text) + 2
  /\ \A j \in 1..Len(text) :
       pattern[j + 1] = "." \/ toLowerCase(<<pattern[j + 1]>>) = toLowerCase(<<text[j]>>)

\* Whether a match stage on one field selects a document whose field holds text.
Selects(stage, text) ==
  IF stage.cond = "$regex" THEN RegexTest(stage.args[1].v, text) ELSE stage.args[1] = StrVal(text)

\* The tenant values of documents and of requests.
TenantTexts == { <<"A","b">>, <<"a","b">>, <<"a","c">> }

\* The tenant stage injected for a tenant value.
TenantStageFor(tenantValue) ==
  buildMatch(getFiltersFromUrl(<<>>, Str(tenantValue), options.tenantField)[1]).stage

\* C10: the tenant stage selects only the documents whose tenant field equals
\* tenantValue exactly: two requests that differ only in tenantValue, letter case
\* included, never both match the same document.
C10_TenantStageIsExact ==
  (op = "fetchList" /\ Truthy(options.tenantValue)) =>
    \A c \in 1..Len(calls) : \A j \in 1..Len(calls[c].stages) :
      IsTenantStage(calls[c].stages[j]) =>
        \A text \in TenantTexts :
          /\ Selects(calls[c].stages[j], text) => text = options.tenantValue.s
          /\ \A other \in TenantTexts \ {options.tenantValue.s} :
               ~(Selects(calls[c].stages[j], text) /\ Selects(TenantStageFor(other), text))

\* ------------------------------------------------------------------------
\* Claims about pagination, order, total, flags and sort, under SpecPaging.
\* ------------------------------------------------------------------------
\* The maximum the options configure for the items of a page.
ConfiguredMaximum == IF IsUndefined(options.limit) THEN 250 ELSE ToInt(options.limit.s)

\* The stage lists of the data queries sent so far.
DataQueries == { calls[c].stages : c \in { d \in 1..Len(calls) : calls[d].kind = "items" } }

\* Whether a stage list ends with $skip = (page-1)*limit and $limit = limit for
\* a page >= 1 and a limit between 1 and the configured maximum.
EndsPaginated(stages) ==
  /\ Len(stages) >= 2
  /\ stages[Len(stages) - 1].kind = "$skip"
  /\ stages[Len(stages)].kind = "$limit"
  /\ IsWhole(stages[Len(stages)].args[1])
  /\ IsWhole(stages[Len(stages) - 1].args[1])
  /\ WholeOf(stages[Len(stages)].args[1]) \in 1..ConfiguredMaximum
  /\ WholeOf(stages[Len(stages) - 1].args[1]) >= 0
  /\ WholeOf(stages[Len(stages) - 1].args[1]) % WholeOf(stages[Len(stages)].args[1]) = 0

\* C11: for every request URL without the export parameter, the data pipeline of
\* fetchList and fetchUnifiedList ends with $skip = (page-1)*limit followed by
\* $limit = limit, where page >= 1 and 1 <= limit <= the configured maximum
\* (options.limit, default 250), whatever the URL gives for page and limit.
C11_DataPipelineEndsPaginated ==
  IsUndefined(request.export) => \A stages \in DataQueries : EndsPaginated(stages)

\* The match stages the descriptors compile to, in order, the descriptors that
\* compile to nothing left out.
RECURSIVE StagesOf(_)
StagesOf(descriptors) ==
  IF Len(descriptors) = 0 THEN <<>>
  ELSE (IF buildMatch(descriptors[1]).k = "stage" THEN <<buildMatch(descriptors[1]).stage>> ELSE <<>>)
       \o StagesOf(Tail(descriptors))

\* The tenant descriptor, when a tenant value is given, then the descriptors of
\* the URL's filter parameters in URL order.
ClaimedDescriptors ==
  (IF Truthy(options.tenantValue)
   THEN <<[field |-> Str(ConfiguredTenantField), type |-> Str(s_string), operator |-> Str(s_eq),
           value |-> options.tenantValue, percentOfResult |-> Undefined]>>
   ELSE <<>>) \o parseFilters(request.filter)

\* The stages of a list that are of one kind.
RECURSIVE OfKind(_, _)
OfKind(stages, kind) ==
  IF Len(stages) = 0 THEN <<>>
  ELSE (IF stages[1].kind = kind THEN <<stages[1]>> ELSE <<>>) \o OfKind(Tail(stages), kind)

\* Whether part is a run of compiled filter stages: the claimed match stages in
\* order, with nothing between them but the truncations of percentOfResult.
IsFilterGroup(part) ==
  /\ \A j \in 1..Len(part) : part[j].kind \in {"$match", "$skip", "$limit"}
  /\ OfKind(part, "$match") = StagesOf(ClaimedDescriptors)

IsSortGroup(part) == Len(part) <= 1 /\ \A j \in 1..Len(part) : part[j].kind = "$sort"

IsPageGroup(part) == part = <<>> \/ (Len(part) = 2 /\ part[1].kind = "$skip" /\ part[2].kind = "$limit")

\* Whether stages is initialPipeline, a filter group, a sort group,
\* finalPipeline and a page group, in that order and with nothing else.
InClaimedOrder(stages, initialPipeline, finalPipeline) ==
  \E a \in 0..Len(stages) : \E b \in a..(a + 1) : \E e \in {Len(stages) - 2, Len(stages)} :
    /\ Len(initialPipeline) <= a /\ b + Len(finalPipeline) = e
    /\ SubSeq(stages, 1, Len(initialPipeline)) = initialPipeline
    /\ IsFilterGroup(SubSeq(stages, Len(initialPipeline) + 1, a))
    /\ IsSortGroup(SubSeq(stages, a + 1, b))
    /\ SubSeq(stages, b + 1, e) = finalPipeline
    /\ IsPageGroup(SubSeq(stages, e + 1, Len(stages)))

\* C12: the data pipeline fetchList executes is the initialPipeline stages, then
\* the compiled filter stages (tenant first, then URL order), then the sort
\* stage, then the finalPipeline stages, then $skip and $limit last; no stage of
\* a later group precedes a stage of an earlier group.
C12_DataPipelineOrder ==
  op = "fetchList" =>
    \A stages \in DataQueries : InClaimedOrder(stages, models[1].initialPipeline, models[1].finalPipeline)

C12_Witness ==
  /\ op = "fetchList" /\ pc = "returned"
  /\ \E stages \in DataQueries :
       /\ Len(stages) = 9
       /\ stages[1] = Pre
       /\ IsTenantStage(stages[2])
       /\ stages[3].field = s_name
       /\ stages[4].field = s_price
       /\ stages[5].kind = "$limit"
       /\ stages[6].kind = "$sort"
       /\ stages[7] = Post
       /\ stages[8].kind = "$skip"
       /\ stages[9].kind = "$limit"

\* The positions in the log of the engine calls of one kind.
CallsOfKind(kind) == {c \in 1..Len(calls) : calls[c].kind = kind}

\* Whether stages is a count over initialPipeline and the compiled filter
\* stages and nothing else: the only truncations are the ones of the
\* percentage counts that found documents.
IsFilteredCount(stages, initialPipeline) ==
  /\ Len(stages) > Len(initialPipeline)
  /\ SubSeq(stages, 1, Len(initialPipeline)) = initialPipeline
  /\ stages[Len(stages)] = Count
  /\ IsFilterGroup(SubSeq(stages, Len(initialPipeline) + 1, Len(stages) - 1))
  /\ Len(OfKind(SubSeq(stages, Len(initialPipeline) + 1, Len(stages) - 1), "$limit"))
       = Cardinality({c \in CallsOfKind("percent") : calls[c].answer # 0})

\* C13: fetchList computes total from exactly one count query over
\* initialPipeline and the compiled filter stages, issued before sort,
\* finalPipeline and pagination are appended; the query, and so the total, does
\* not depend on page, limit, sort or export.
C13_TotalIsOneFilteredCount ==
  (op = "fetchList" /\ pc = "returned") =>
    /\ Cardinality(CallsOfKind("total")) = 1
    /\ \A c \in CallsOfKind("total") :
         /\ IsFilteredCount(calls[c].stages, models[1].initialPipeline)
         /\ result.total = calls[c].answer
         /\ \A d \in CallsOfKind("items") : c < d

C13_Witness ==
  /\ op = "fetchList" /\ pc = "returned"
  /\ Truthy(request.export)
  /\ Len(request.filter) = 2
  /\ Len(models[1].initialPipeline) > 0
  /\ CallsOfKind("percent") # {}
  /\ CallsOfKind("items") # {}
  /\ result.total = MaxTotal

\* Whether stage is the $unionWith of source cfg around the filter stages fp.
IsUnionOf(stage, cfg, fp) ==
  /\ stage.kind = "$unionWith"
  /\ stage.field = cfg.name
  /\ stage.sub = cfg.initialPipeline \o fp \o <<AddSourceType(cfg.name)>> \o cfg.finalPipeline

\* Whether stages is the unified pipeline of the sources around the filter
\* stages fp: the base's initialPipeline, fp, the base's tag, one $unionWith
\* per other source in source order, the base's finalPipeline.
IsUnifiedAround(stages, fp) ==
  /\ Len(stages) = Len(models[1].initialPipeline) + Len(fp) + Len(models) + Len(models[1].finalPipeline)
  /\ SubSeq(stages, 1, Len(models[1].initialPipeline)) = models[1].initialPipeline
  /\ SubSeq(stages, Len(models[1].initialPipeline) + 1, Len(models[1].initialPipeline) + Len(fp)) = fp
  /\ stages[Len(models[1].initialPipeline) + Len(fp) + 1] = AddSourceType(models[1].name)
  /\ \A j \in 2..Len(models) :
       IsUnionOf(stages[Len(models[1].initialPipeline) + Len(fp) + j], models[j], fp)
  /\ SubSeq(stages, Len(models[1].initialPipeline) + Len(fp) + Len(models) + 1, Len(stages))
       = models[1].finalPipeline

\* The filter stages of a unified pipeline: what lies between the base's
\* initialPipeline and the first tag.
FilterStagesIn(stages) ==
  LET first == CHOOSE p \in 1..Len(stages) :
                 /\ p > Len(models[1].initialPipeline)
                 /\ stages[p].kind = "$addFields"
                 /\ \A q \in (Len(models[1].initialPipeline) + 1)..(p - 1) : stages[q].kind # "$addFields"
  IN  SubSeq(stages, Len(models[1].initialPipeline) + 1, first - 1)

IsUnified(stages) ==
  /\ \E p \in (Len(models[1].initialPipeline) + 1)..Len(stages) : stages[p].kind = "$addFields"
  /\ IsUnifiedAround(stages, FilterStagesIn(stages))

\* Whether stages is the count the call makes whatever its flags are.
IsTotalQuery(stages) ==
  IF op = "fetchList"
  THEN IsFilteredCount(stages, models[1].initialPipeline)
  ELSE /\ Len(stages) > 0
       /\ stages[Len(stages)] = Count
       /\ IsUnified(SubSeq(stages, 1, Len(stages) - 1))

\* C14: when the URL carries a non-empty countResultOnly parameter, fetchList
\* and fetchUnifiedList return items = [] with the total of the count query the
\* call makes without the flag too, and no data query follows the count query.
C14_CountOnlyStopsAfterCount ==
  (op \in {"fetchList", "fetchUnifiedList"} /\ pc = "returned"
     /\ IsString(request.countResultOnly) /\ request.countResultOnly.s # <<>>) =>
    /\ result.items = <<>>
    /\ CallsOfKind("items") = {}
    /\ IF Len(models) = 0
       THEN calls = <<>> /\ result.total = 0
       ELSE /\ Cardinality(CallsOfKind("total")) = 1
            /\ calls[Len(calls)].kind = "total"
            /\ IsTotalQuery(calls[Len(calls)].stages)
            /\ result.total = calls[Len(calls)].answer

C14_Witness ==
  /\ op = "fetchUnifiedList" /\ pc = "returned"
  /\ Len(models) = 2
  /\ Truthy(request.countResultOnly)
  /\ Truthy(request.page)
  /\ result.items = <<>>
  /\ result.total = MaxTotal

\* The parts of the URL's sort parameter, none when the URL has no sort.
UrlSort == IF IsString(request.sort) THEN SplitAll(request.sort.s, "|") ELSE <<>>

ClaimedSortField ==
  IF Len(UrlSort) >= 1 /\ UrlSort[1] # <<>> THEN UrlSort[1]
  ELSE IF IsString(options.sortField) THEN options.sortField.s
  ELSE <<"u","p","d","a","t","e","d","A","t">>

ClaimedSortDirection ==
  IF Len(UrlSort) >= 2 /\ toLowerCase(UrlSort[2]) = <<"a","s","c">> THEN "1"
  ELSE IF Len(UrlSort) >= 2 /\ toLowerCase(UrlSort[2]) = <<"d","e","s","c">> THEN "-1"
  ELSE IF IsString(options.sortDir) /\ options.sortDir.s = <<"a","s","c">> THEN "1"
  ELSE "-1"

\* Whether stages is counted (initialPipeline and the filter stages), then the
\* claimed sort stage unless counted sorts already, then finalPipeline and a
\* page group.
SortsAsClaimed(stages, counted, finalPipeline) ==
  \E rest \in {<<>>} \cup (IF Len(stages) >= 2 THEN {SubSeq(stages, Len(stages) - 1, Len(stages))} ELSE {}) :
    /\ IsPageGroup(rest)
    /\ stages = counted
                  \o (IF \E j \in 1..Len(counted) : counted[j].kind = "$sort"
                      THEN <<>>
                      ELSE <<Sort(ClaimedSortField, ClaimedSortDirection)>>)
                  \o finalPipeline \o rest

\* C15: fetchList appends exactly one sort stage when no stage of
\* initialPipeline or of the compiled filter stages is a $sort, and none
\* otherwise; the field is the URL sort parameter's field when present, else
\* options.sortField, else updatedAt; the direction is the URL's asc/desc
\* (case-insensitive) when present, else options.sortDir, else descending.
C15_SortStageAndPrecedence ==
  op = "fetchList" =>
    \A d \in CallsOfKind("items") : \A c \in CallsOfKind("total") :
      SortsAsClaimed(calls[d].stages, SubSeq(calls[c].stages, 1, Len(calls[c].stages) - 1),
                     models[1].finalPipeline)

C15_Witness ==
  /\ op = "fetchList" /\ pc = "returned"
  /\ request.sort = Str(s_name \o <<"|","D","E","S","C">>)
  /\ options.sortField = Str(s_price)
  /\ options.sortDir = Str(<<"a","s","c">>)
  /\ \E stages \in DataQueries : \E j \in 1..Len(stages) : stages[j] = Sort(s_name, "-1")

\* The number of descriptors that carry a non-empty percentOfResult and
\* compile to a stage.
RECURSIVE PercentFilters(_)
PercentFilters(descriptors) ==
  IF Len(descriptors) = 0 THEN 0
  ELSE (IF /\ IsString(descriptors[1].percentOfResult)
           /\ descriptors[1].percentOfResult.s # <<>>
           /\ buildMatch(descriptors[1]).k = "stage"
        THEN 1 ELSE 0) + PercentFilters(Tail(descriptors))

\* C16: a fetchList call that completes makes exactly 1 + k engine calls when
\* countResultOnly is set and exactly 2 + k otherwise, k the number of filters
\* that carry a non-empty percentOfResult and compile to a stage; with k = 0
\* and no flag the calls are the count and then the data query.
C16_EngineCallCount ==
  (op = "fetchList" /\ pc = "returned") =>
    /\ Len(calls) = (IF Truthy(request.countResultOnly) THEN 1 ELSE 2) + PercentFilters(ClaimedDescriptors)
    /\ \A c \in 1..Len(calls) : calls[c].answer # NoAnswer
    /\ (PercentFilters(ClaimedDescriptors) = 0 /\ ~Truthy(request.countResultOnly)) =>
         (calls[1].kind = "total" /\ calls[2].kind = "items")

C16_Witness ==
  /\ op = "fetchList" /\ pc = "returned"
  /\ ~Truthy(request.countResultOnly)
  /\ Len(request.filter) = 2
  /\ PercentFilters(ClaimedDescriptors) = 1
  /\ \E j \in 1..2 : parseFilter(request.filter[j]).percentOfResult = Str(<<>>)
  /\ Len(calls) = 3

\* Whether the calls of the log were made one after the other: none but the
\* last is without its answer.
Sequential == \A c \in 1..(Len(calls) - 1) : calls[c].answer # NoAnswer

\* The place of a kind of call in the order the claim gives.
ClaimedRank(kind) == CASE kind = "total" -> 1 [] kind = "percent" -> 2 [] kind = "items" -> 3

\* C17: within one fetchList call the engine calls are strictly sequential (a
\* call is issued only after the previous one has returned) and occur in the
\* order: the total count, then the percentage counts, then the data query.
C17_SequentialInClaimedOrder ==
  op = "fetchList" =>
    /\ Sequential
    /\ \A c \in 1..Len(calls) : \A d \in c..Len(calls) :
         ClaimedRank(calls[c].kind) <= ClaimedRank(calls[d].kind)

\* ------------------------------------------------------------------------
\* Claims about engine failures, under SpecEngine.
\* ------------------------------------------------------------------------
\* Whether an engine call of the invocation is outstanding.
Outstanding == Len(calls) > 0 /\ calls[Len(calls)].answer = NoAnswer /\ ~Finished

\* A step that hands the outstanding call its answer.
AnswersOutstanding == Len(calls') >= Len(calls) /\ calls'[Len(calls)].answer # NoAnswer

\* A step that ends the invocation with the engine's error: no result, no
\* other call, the failed call not issued again.
FailsWithEngineError == pc' = "thrown" /\ result' = Threw("EngineError") /\ calls' = calls

\* C18: if an engine call made by fetchList, fetchUnifiedList, fetchItem,
\* fetchItemBy or buildPipelineWithPercent fails, that same error reaches the
\* caller, the call is not retried, and the invocation makes no further engine
\* call and returns no result: an outstanding call is either answered or ends
\* the invocation with the error, and nothing happens after the error.
C18_EngineFailurePropagates ==
  [][ /\ Outstanding => (AnswersOutstanding \/ FailsWithEngineError)
      /\ pc # "thrown" ]_vars

C18_Witness ==
  /\ op = "fetchList" /\ pc = "thrown"
  /\ result = Threw("EngineError")
  /\ Len(calls) = 3
  /\ calls[1].answer # NoAnswer /\ calls[2].answer # NoAnswer
  /\ calls[3].kind = "items" /\ calls[3].answer = NoAnswer

\* ------------------------------------------------------------------------
\* Claims about fetchUnifiedList, under Spec.
\* ------------------------------------------------------------------------
\* Whether stages is a unified pipeline followed by nothing but the count, or
\* the sort and the page stages.
IsUnifiedQuery(stages) ==
  \E n \in 1..Len(stages) :
    /\ IsUnified(SubSeq(stages, 1, n))
    /\ \A j \in (n + 1)..Len(stages) : stages[j].kind \in {"$count", "$sort", "$skip", "$limit"}

UrlLeavesTenantAlone == \A j \in 1..Len(request.filter) : ~IncludesString(request.filter[j], ConfiguredTenantField)

\* Whether every source has neither an initial nor a final pipeline.
PlainSources == \A j \in 1..Len(models) : models[j].initialPipeline = <<>> /\ models[j].finalPipeline = <<>>

\* C20: for fetchUnifiedList over two or more sources without initial/final
\* pipelines, every returned document carries the identifier of its source, and
\* total is the sum over the sources of the documents of that source that
\* match the URL filters and the tenant filter, for every URL and every
\* options value: the count runs, in the base and in every union, over the
\* stages of the tenant filter and of the URL's filters, then the source's tag.
C20_UnifiedTotalIsFilteredSum ==
  (op = "fetchUnifiedList" /\ Len(models) >= 2 /\ PlainSources /\ UrlLeavesTenantAlone) =>
    \A c \in CallsOfKind("total") :
      /\ IsUnifiedQuery(calls[c].stages)
      /\ FilterStagesIn(calls[c].stages) = StagesOf(ClaimedDescriptors)

\* ------------------------------------------------------------------------
\* Claims about fetchItem and fetchItemBy, under SpecEngine.
\* ------------------------------------------------------------------------
\* The descriptor {field, type: string, operator: eq, value}.
EqOnString(field, value) ==
  [field |-> Str(field), type |-> Str(s_string), operator |-> Str(s_eq), value |-> value,
   percentOfResult |-> Undefined]

\* The $or of id = s, id = Number(s), and _id = ObjectId(s) when s is a valid
\* ObjectId, else _id = s.
ThreeWayMatch(s) ==
  Match(<<>>, "$or:id,id,_id",
        <<StrVal(s), Number(s), IF ObjectIdIsValid(s) THEN [t |-> "oid", v |-> s] ELSE StrVal(s)>>)

\* The match stage of a query of fetchItem: the one after the initialPipeline.
ItemMatchOf(stages) == stages[Len(models[1].initialPipeline) + 1]

\* C21: for every identifier string s, the match stage fetchItem builds is
\* identical to the stage buildPipeline emits for the descriptor {field: id or
\* _id, type: string, operator: eq, value: s}: an $or of id = s, id = Number(s),
\* and _id = ObjectId(s) when s is a valid ObjectId, else _id = s.
C21_ItemMatchIsEqOnId ==
  op = "fetchItem" =>
    \A c \in CallsOfKind("item") :
      /\ ItemMatchOf(calls[c].stages) = ThreeWayMatch(ItemId.s)
      /\ \A f \in {s_id, s__id} :
           buildPipeline(<<EqOnString(f, ItemId)>>).stages = <<ItemMatchOf(calls[c].stages)>>

C21_Witness ==
  /\ op = "fetchItem" /\ pc = "returned"
  /\ ObjectIdIsValid(ItemId.s)
  /\ models[1].initialPipeline = <<Pre>>
  /\ \E c \in CallsOfKind("item") : ItemMatchOf(calls[c].stages).args[3].t = "oid"

\* C22: fetchItem and fetchItemBy return the first document of the engine's
\* result when it is non-empty and null when it is empty; an empty result never
\* raises an error, and $limit 1 is the last stage of the pipeline both of them
\* send, after the caller's extra stages.
C22_FirstDocumentOrNull ==
  op \in {"fetchItem", "fetchItemBy"} =>
    \A c \in CallsOfKind("item") :
      /\ calls[c].stages[Len(calls[c].stages)] = Limit(IntVal(1))
      /\ \E at \in 1..(Len(calls[c].stages) - 1) :
           /\ calls[c].stages[at].kind = "$match" /\ calls[c].stages[at].cond # "caller"
           /\ SubSeq(calls[c].stages, 1, at - 1) = models[1].initialPipeline
           /\ SubSeq(calls[c].stages, at + 1, Len(calls[c].stages) - 1)
                = (IF op = "fetchItem" THEN models[1].finalPipeline ELSE <<>>)
      /\ calls[c].answer # NoAnswer =>
           /\ pc = "returned" /\ result.k = "value"
           /\ result.items = (IF calls[c].answer = 0 THEN <<>> ELSE <<"doc">>)

C22_Witness ==
  /\ op = "fetchItemBy" /\ pc = "returned"
  /\ models[1].initialPipeline = <<Pre>>
  /\ Len(calls) = 1 /\ calls[1].answer = 0
  /\ result = ItemResult(<<>>)

\* Whether the call names an id in its id argument.
IdArgumentGiven == (IsString(args.id) /\ args.id.s # <<>>) \/ args.id.k = "number"

\* C23: a call that has nothing to look up makes no engine call:
\* fetchUnifiedList with an empty source list returns {page: 1, total: 0,
\* items: []}, and fetchItem with neither an id argument nor an id query
\* parameter returns null, both without contacting the engine; and an explicit
\* id argument, when given, is the one used rather than the URL's id.
C23_NothingToLookUp ==
  /\ (op = "fetchUnifiedList" /\ Len(models) = 0) =>
       /\ calls = <<>>
       /\ pc \in {"start", "returned"}
       /\ pc = "returned" => result = ListResult(IntVal(1), 0, <<>>)
  /\ (op = "fetchItem" /\ IsUndefined(args.id) /\ IsUndefined(request.id)) =>
       /\ calls = <<>>
       /\ pc \in {"start", "returned"}
       /\ pc = "returned" => result = ItemResult(<<>>)
  /\ (op = "fetchItem" /\ IdArgumentGiven) =>
       /\ pc # "start" => Len(calls) = 1
       /\ \A c \in CallsOfKind("item") : ItemMatchOf(calls[c].stages) = ThreeWayMatch(args.id.s)

\* ------------------------------------------------------------------------
\* Claims about what the compiled stages match, under SpecCompile.
\* ------------------------------------------------------------------------
\* Documents: every field holds the text 100, the number 100, or a word.
DocumentFields == {s_id, s__id, s_name, s_price, s_cancellationType}
DocumentValues == {StrVal(<<"1","0","0">>), IntVal(100), StrVal(<<"a","b","c">>)}
Documents == [DocumentFields -> DocumentValues]

\* Whether the engine selects doc with a stage of eq or ne: the $or of the
\* three identifier forms, a regular expression (which only a text can match)
\* or its negation, an equality or its negation.
Matches(stage, doc) ==
  CASE stage.cond = "$or:id,id,_id" ->
         doc[s_id] = stage.args[1] \/ doc[s_id] = stage.args[2] \/ doc[s__id] = stage.args[3]
    [] stage.cond = "$regex" -> doc[stage.field].t = "str" /\ RegexTest(stage.args[1].v, doc[stage.field].v)
    [] stage.cond = "$not" -> ~(doc[stage.field].t = "str" /\ RegexTest(stage.args[1].v, doc[stage.field].v))
    [] stage.cond = "$eq" -> doc[stage.field] = stage.args[1]
    [] stage.cond = "$ne" -> doc[stage.field] # stage.args[1]

\* The descriptors of the run on which eq and ne can be compared.
NegatableFilters ==
  { k \in 1..Len(filters) :
      /\ ~Incomplete(filters[k])
      /\ filters[k].field.s \in DocumentFields
      /\ filters[k].type.s \in {s_string, s_amount, s_array}
      /\ filters[k].operator.s \in {s_eq, s_ne}
      /\ buildMatch([filters[k] EXCEPT !.operator = Str(s_eq)]).k = "stage"
      /\ buildMatch([filters[k] EXCEPT !.operator = Str(s_ne)]).k = "stage" }

\* Whether the ne stage of a descriptor matches the complement of its eq stage.
NeIsComplementOfEq(filter) ==
  \A doc \in Documents :
    Matches(buildMatch([filter EXCEPT !.operator = Str(s_ne)]).stage, doc)
      <=> ~Matches(buildMatch([filter EXCEPT !.operator = Str(s_eq)]).stage, doc)

\* C24: for every type for which ne is supported (string, amount, array), every
\* field (including id and _id) and every value, the set of documents matched
\* by the ne stage is exactly the complement of the set matched by the eq stage
\* for the same field, type and value.
C24_NeIsComplementOfEq ==
  pc = "returned" => \A k \in NegatableFilters : NeIsComplementOfEq(filters[k])

\* Timestamps: a UTC day and the milliseconds into it.
MsPerDay == 86400000
TimestampDays ==
  { <<"2","0","2","3","-","1","2","-","3","1">>, <<"2","0","2","4","-","0","1","-","0","1">>,
    <<"2","0","2","4","-","0","1","-","0","2">>, <<"2","0","2","4","-","0","1","-","0","3">> }
Timestamps == { [day |-> d, ms |-> ms] : d \in TimestampDays, ms \in {0, 1, MsPerDay - 1} }

\* A number that grows with the calendar day of a text YYYY-MM-DD.
DayNumber(day) == (ToInt(SubSeq(day, 1, 4)) * 12 + ToInt(SubSeq(day, 6, 7))) * 31 + ToInt(SubSeq(day, 9, 10))

\* The first and the last millisecond of a day, as timestamps.
dayStart(day) == [day |-> day, ms |-> 0]
dayEnd(day) == [day |-> day, ms |-> MsPerDay - 1]

\* The order of timestamps.
Earlier(a, b) ==
  \/ DayNumber(a.day) < DayNumber(b.day)
  \/ DayNumber(a.day) = DayNumber(b.day) /\ a.ms < b.ms
NotLater(a, b) == a = b \/ Earlier(a, b)

\* The timestamp of a Date a stage holds.
TimestampOfDate(date) ==
  IF date.v[11] = "T00:00:00.000Z" THEN dayStart(SubSeq(date.v, 1, 10)) ELSE dayEnd(SubSeq(date.v, 1, 10))

\* Whether the engine selects a document whose field holds the timestamp t.
MatchesTimestamp(stage, t) ==
  CASE stage.cond = "$gte-$lte" ->
         NotLater(TimestampOfDate(stage.args[1]), t) /\ NotLater(t, TimestampOfDate(stage.args[2]))
    [] stage.cond = "$lt" -> Earlier(t, TimestampOfDate(stage.args[1]))
    [] stage.cond = "$gt" -> Earlier(TimestampOfDate(stage.args[1]), t)

\* Whether a text names a day of the calendar.
IsCalendarDay(s) ==
  /\ IsIsoDay(s)
  /\ ToInt(SubSeq(s, 6, 7)) \in 1..12
  /\ ToInt(SubSeq(s, 9, 10)) \in 1..DaysInMonth(ToInt(SubSeq(s, 1, 4)), ToInt(SubSeq(s, 6, 7)))

\* What the claim lets a date filter match.
ClaimedDateMatch(filter, t) ==
  CASE filter.operator.s = s_eq -> NotLater(dayStart(filter.value.s), t) /\ NotLater(t, dayEnd(filter.value.s))
    [] filter.operator.s = s_before -> Earlier(t, dayStart(filter.value.s))
    [] filter.operator.s = s_after -> Earlier(dayEnd(filter.value.s), t)
    [] filter.operator.s = s_range -> NotLater(dayStart(filter.value.s), t) /\ NotLater(t, dayEnd(filter.value.t))

\* The date descriptors of the run: eq, before, after on a day, range on two.
DateFilters ==
  { k \in 1..Len(filters) :
      /\ ~Incomplete(filters[k])
      /\ filters[k].type.s = s_date
      /\ \/ filters[k].operator.s \in {s_eq, s_before, s_after}
            /\ IsString(filters[k].value) /\ IsCalendarDay(filters[k].value.s)
         \/ filters[k].operator.s = s_range /\ filters[k].value.k = "range"
            /\ IsCalendarDay(filters[k].value.s) /\ IsCalendarDay(filters[k].value.t) }

\* C25: for a date filter on day d, eq matches exactly the timestamps t with
\* dayStart(d) <= t <= dayEnd(d) (00:00:00.000 and 23:59:59.999 UTC of d);
\* before matches exactly t < dayStart(d) and after exactly t > dayEnd(d), so
\* both exclude the whole given day; range from~to matches exactly
\* dayStart(from) <= t <= dayEnd(to).
C25_DateBoundsAreWholeDays ==
  pc = "returned" =>
    \A k \in DateFilters :
      /\ buildMatch(filters[k]).k = "stage"
      /\ buildMatch(filters[k]).stage \in { result.stages[j] : j \in 1..Len(result.stages) }
      /\ \A t \in Timestamps : MatchesTimestamp(buildMatch(filters[k]).stage, t) <=> ClaimedDateMatch(filters[k], t)

C25_Witness ==
  /\ pc = "returned"
  /\ \E k \in DateFilters :
       /\ filters[k].operator.s = s_range
       /\ filters[k].value.s # filters[k].value.t
       /\ \E t \in Timestamps : MatchesTimestamp(buildMatch(filters[k]).stage, t) /\ t.ms = MsPerDay - 1
       /\ \E t \in Timestamps : ~MatchesTimestamp(buildMatch(filters[k]).stage, t)

\* ------------------------------------------------------------------------
\* Claims about the value of a parsed descriptor, under SpecCompile.
\* ------------------------------------------------------------------------
\* The value token of a filter string: the fourth token of a full form, the
\* last non-empty one of a short form, none on a string of one token.
RawValue(s) ==
  IF Len(Tokens(s)) >= 4 THEN Str(Tokens(s)[4])
  ELSE IF Len(Tokens(s)) = 3 /\ Tokens(s)[3] # <<>> THEN Str(Tokens(s)[3])
  ELSE IF Len(Tokens(s)) >= 2 THEN Str(Tokens(s)[2])
  ELSE Undefined

\* The text before the first "~" of s and the whole text after it.
AroundFirstTilde(s) ==
  Range(SubSeq(s, 1, IndexOf(s, "~") - 1), SubSeq(s, IndexOf(s, "~") + 1, Len(s)))

\* The value the claim gives the descriptor of a filter string.
ClaimedValue(s, operator) ==
  IF operator = Str(s_range) /\ IsString(RawValue(s)) /\ Includes(RawValue(s).s, "~")
  THEN AroundFirstTilde(RawValue(s).s)
  ELSE RawValue(s)

\* C26: when the operator is range and the value contains '~', parseFilter
\* returns value {from, to} where from is the text before the first '~' and to
\* is the whole text after the first '~'; in every other case the returned
\* value is the raw string token, never a structured value.
C26_RangeValueSplitsAtFirstTilde ==
  pc # "start" =>
    \A k \in 1..Len(request.filter) :
      filters[k].value = ClaimedValue(request.filter[k], filters[k].operator)

\* ------------------------------------------------------------------------
\* Claims about the truncations of buildPipelineWithPercent, under SpecPercent.
\* ------------------------------------------------------------------------
\* The pipeline built so far, or returned.
BuiltSoFar == IF pc = "returned" THEN result.stages ELSE pipeline

\* Whether a truncation of skip and limit is executable on a count of n.
Executable(skipped, limited, n) ==
  /\ IsWhole(skipped) /\ WholeOf(skipped) >= 0
  /\ IsWhole(limited) /\ WholeOf(limited) >= 1
  /\ WholeOf(skipped) + WholeOf(limited) <= n

\* Whether what stages holds after its first p stages, if it is a truncation,
\* is executable on a count of n.
ExecutableAfter(stages, p, n) ==
  IF Len(stages) > p /\ stages[p + 1].kind = "$skip"
  THEN /\ Len(stages) > p + 1 /\ stages[p + 2].kind = "$limit"
       /\ Executable(stages[p + 1].args[1], stages[p + 2].args[1], n)
  ELSE IF Len(stages) > p /\ stages[p + 1].kind = "$limit"
  THEN Executable(IntVal(0), stages[p + 1].args[1], n)
  ELSE TRUE

\* C27: every truncation that buildPipelineWithPercent appends is executable
\* and stays within the counted set: each $limit it emits is >= 1, each $skip
\* it emits is >= 0, and skip + limit <= the counted total, for every
\* percentOfResult token and every running count.
C27_TruncationIsExecutable ==
  op = "buildPipelineWithPercent" =>
    \A c \in CallsOfKind("percent") :
      calls[c].answer # NoAnswer =>
        ExecutableAfter(BuiltSoFar, Len(calls[c].stages) - 1, calls[c].answer)

\* ------------------------------------------------------------------------
\* Claims about the filters read from the URL, under Spec.
\* ------------------------------------------------------------------------
\* The filter parameters of the URL whose field token is not the tenant field,
\* in URL order.
RECURSIVE NotOnField(_, _)
NotOnField(list, field) ==
  IF Len(list) = 0 THEN <<>>
  ELSE (IF Tokens(list[1])[1] = field THEN <<>> ELSE <<list[1]>>) \o NotOnField(Tail(list), field)

\* The descriptors the claim gives the call: the tenant descriptor, if a tenant
\* value is given, then the descriptors of the filters not on the tenant field.
ClaimedFilters ==
  (IF Truthy(options.tenantValue) THEN <<EqOnString(ConfiguredTenantField, options.tenantValue)>> ELSE <<>>)
    \o parseFilters(NotOnField(request.filter, ConfiguredTenantField))

\* C28: getFiltersFromUrl discards a URL filter string if and only if its field
\* token equals the tenant field; every other filter parameter of the URL is
\* returned as a descriptor, in URL order, after the tenant descriptor (if any),
\* whether or not a tenantValue or tenantField is supplied, and identically
\* when called from fetchList and from fetchUnifiedList.
C28_OnlyTenantFieldFiltersDiscarded ==
  (op \in {"fetchList", "fetchUnifiedList"} /\ pc # "start" /\ Len(models) > 0) =>
    filters = ClaimedFilters

\* ------------------------------------------------------------------------
\* Claims about short-form filters on identifiers, under SpecCompile.
\* ------------------------------------------------------------------------
\* The short-form strings id|v and _id|v of the run with a non-empty v.
ShortIdentifierFilters ==
  { k \in 1..Len(request.filter) :
      /\ IsTwoToken(request.filter[k])
      /\ Tokens(request.filter[k])[1] \in {s_id, s__id}
      /\ Tokens(request.filter[k])[2] # <<>> }

\* C29: every short-form filter on field id or _id with a non-empty value
\* (id|v or _id|v) is given operator eq and compiles to the three-way
\* identifier match (string id, numeric id, ObjectId-or-string _id), for every
\* value v.
C29_ShortIdentifierIsThreeWay ==
  (op = "buildPipeline" /\ pc # "start") =>
    \A k \in ShortIdentifierFilters :
      /\ filters[k].operator = Str(s_eq)
      /\ buildMatch(filters[k]) = Emit(ThreeWayMatch(Tokens(request.filter[k])[2]))

\* ------------------------------------------------------------------------
\* Claims about how the pipelines of one call grow, under Spec.
\* ------------------------------------------------------------------------
\* Whether the stage list short is the beginning of the stage list long.
IsPrefixOf(short, long) == Len(short) <= Len(long) /\ SubSeq(long, 1, Len(short)) = short

\* The stage list of a count query without its trailing $count.
Counted(stages) == SubSeq(stages, 1, Len(stages) - 1)

\* Whether every data query issued so far extends what every total count so
\* far counted.
DataExtendsCounted ==
  \A t \in CallsOfKind("total") : \A d \in CallsOfKind("items") :
    /\ calls[t].stages[Len(calls[t].stages)] = Count
    /\ IsPrefixOf(Counted(calls[t].stages), calls[d].stages)

\* C30: pipelines only grow by appending: in one fetchList or fetchUnifiedList
\* call, the stage list of the count query without its trailing $count is a
\* prefix of the stage list of the data query, and the caller's initialPipeline,
\* finalPipeline and source-config arrays (and the stage objects in them) are
\* left unchanged by the call.
C30_PipelinesOnlyGrow ==
  [][/\ models' = models
     /\ DataExtendsCounted']_vars

C30_Witness ==
  /\ op = "fetchUnifiedList" /\ pc = "returned"
  /\ Len(models) = 2
  /\ models[1].initialPipeline # <<>> /\ models[1].finalPipeline # <<>>
  /\ models[2].initialPipeline # <<>>
  /\ Len(filters) = 2
  /\ \E t \in CallsOfKind("total") : \E d \in CallsOfKind("items") :
       /\ Len(calls[t].stages) >= 5
       /\ Len(calls[d].stages) > Len(calls[t].stages)

=============================================================================
